---- MODULE Spec2Model ----
(***************************************************************************)
(* Verification model of the voice front-end repository.                   *)
(*                                                                         *)
(* Part I  : the TTS job manager (tts-service/app/services/tts_service.py, *)
(*           tts-service/app/api/tts.py, tts-service/app/main.py).         *)
(*           The worker threads of the ThreadPoolExecutor, the startup     *)
(*           preload thread and the event-loop thread that runs the API    *)
(*           handlers are separate processes; shared fields are read and   *)
(*           written one statement at a time.                              *)
(* Part II : one websocket connection of the voice service and its         *)
(*           StreamingASRSession (voice-service/app/api/voice.py,          *)
(*           voice-service/app/services/voice_interface.py).               *)
(*                                                                         *)
(* Part III: the pure functions of the voice service: the speaker          *)
(*           selection and result filter at the end of finalize(), and the *)
(*           text corrector and result frame of the websocket handler.     *)
(*                                                                         *)
(* The two services are separate processes: SpecTTS runs the job manager   *)
(* with the session at rest, SpecSession runs the session with the job     *)
(* manager at rest.  SpecFinalize and SpecCorrector draw the inputs of the *)
(* pure functions from bounded sets and apply the functions to them.       *)
(*                                                                         *)
(* Part IV : the event loop of the voice service, which runs the receive   *)
(*           loops of all websocket connections on one thread (SpecLoop).  *)
(*                                                                         *)
(* Part V  : the pure functions of the TTS service: the text segmenter     *)
(*           (SpecSegmenter) and the WAV concatenation (SpecConcat for the *)
(*           segment WAVs of one format, SpecConcatMixed for lists whose   *)
(*           later WAVs may differ in sample width from the first).        *)
(***************************************************************************)
EXTENDS Integers, Sequences, FiniteSets, TLC

\* ------------------------------------------------------------------ bounds
MaxJobs == 1
MaxSegs == 2

\* ------------------------------------------------------- program constants
PoolSize == 2
BatchSize == 2
\* self._use_batch_processing, default of TTS_USE_BATCH; the parallel branch
\* (TTS_PARALLEL_SEGMENTS, default false) is the disabled default
UseBatchProcessing == TRUE

JobIds == 1..MaxJobs
PreloadThread == 0
Threads == 0..MaxJobs

\* websocket connections served by one event loop (Part IV)
MaxSessions == 2
Sessions == 1..MaxSessions
\* messages a connection's socket holds unread (Part IV)
MaxInbox == 2

VARIABLES
    jobs,                 \* TTSManager.jobs : job_id -> record
    queue,                \* work queue of TTSManager._executor
    pc,                   \* position of every thread
    nseg,                 \* len(segments) of the job's text
    segIdx,               \* loop index inside the current batch / single loop
    batchStart,           \* batch_start_idx
    chunkBad,             \* some wav_chunks[i] is b"" (not a WAV container)
    segFailed,            \* inference of some segment raised
    pipeInst,             \* local pipeline_instance (FALSE = None)
    exc,                  \* exception travelling to the except handler
    tts_pipeline,         \* self._tts_pipeline is not None
    is_loading,           \* self._is_loading
    loading_event,        \* self._loading_event : "None" | "Event" (an Event object,
                          \* set or not: a wait on it ends when set or after 60 s)
    api,                  \* handler running on the event loop
    reply                 \* reply emitted by the step just taken (NoReply if none)

ttsVars == <<jobs, queue, pc, nseg, segIdx, batchStart, chunkBad, segFailed,
             pipeInst, exc, tts_pipeline, is_loading, loading_event,
             api, reply>>

VARIABLES
    session,              \* the StreamingASRSession of one websocket connection
    connected             \* the receive loop of that connection is running

sessVars == <<session, connected>>

VARIABLES
    fin,                  \* one call of finalize(): its inputs and what it returned
    txt                   \* one recognised text on its way to the client

VARIABLES
    loop                  \* the event loop of the voice service and the receive
                          \* loops of the websocket connections it runs

VARIABLES
    seg,                  \* one text on its way through the TTS segmenter
    wav                   \* one list of segment WAVs on its way through the
                          \* concatenation

pureVars == <<fin, txt, loop, seg, wav>>

vars == <<ttsVars, sessVars, pureVars>>

\* ----------------------------------------------------------------- helpers
Min(a, b) == IF a < b THEN a ELSE b

Present(j) == j \in DOMAIN jobs

StatusOf(j) == jobs[j].status

NewJob == [status |-> "pending", result |-> "none", error |-> "none"]

SetField(j, f, v) == [jobs EXCEPT ![j] = [jobs[j] EXCEPT ![f] = v]]

Terminal == {"completed", "cancelled", "error"}

CanCleanup_Mut(s) == s \in {"completed", "cancelled", "error", "processing"}

\* cleanup_job: status in ["completed", "cancelled", "error"]
CanCleanup(s) == s \in {"completed", "cancelled", "error"}

\* cancel_task: the two early returns on the status
CancelOutcome(s) ==
    IF s = "completed" THEN "already_completed"
    ELSE IF s = "cancelled" THEN "already_cancelled"
    ELSE "cancelled"

\* get_result: the chain of status tests
ResultOutcome(s) ==
    IF s \in {"pending", "processing"} THEN "processing"
    ELSE IF s = "cancelled" THEN "cancelled"
    ELSE IF s = "error" THEN "error"
    ELSE IF s = "completed" THEN "completed"
    ELSE "unknown"

\* except handler: job_id in self.jobs and status != "cancelled"
ExceptRecords(j) == Present(j) /\ StatusOf(j) # "cancelled"

\* threading.Event.wait(timeout=60) returns when the event is set or on timeout
WaitReturns(t) == TRUE

Running == {j \in JobIds : pc[j] \notin {"idle", "queued", "done"}}

NoApi == [op |-> "none", id |-> 0, seen |-> "none"]
NoReply == [op |-> "none", id |-> 0, status |-> "none", body |-> "none"]

Goto(t, l) == pc' = [pc EXCEPT ![t] = l]

\* a step of a pool thread or of the preload thread emits no reply
Quiet == reply' = NoReply /\ UNCHANGED <<sessVars, pureVars>>

\* -------------------------------------------------------------------- Init
InitTTS ==
    /\ jobs = << >>
    /\ queue = << >>
    /\ pc = [t \in Threads |-> IF t = PreloadThread THEN "e91" ELSE "idle"]
    /\ nseg = [j \in JobIds |-> 0]
    /\ segIdx = [j \in JobIds |-> 0]
    /\ batchStart = [j \in JobIds |-> 0]
    /\ chunkBad = [j \in JobIds |-> FALSE]
    /\ segFailed = [j \in JobIds |-> FALSE]
    /\ pipeInst = [j \in JobIds |-> FALSE]
    /\ exc = [j \in JobIds |-> "none"]
    /\ tts_pipeline = FALSE
    /\ is_loading = FALSE
    /\ loading_event = "None"
    /\ api = NoApi
    /\ reply = NoReply

\* ======================================================================
\* Part II, state : one websocket connection of the voice service
\*           (voice-service/app/api/voice.py, speech_recognition_websocket)
\*           and its StreamingASRSession
\*           (voice-service/app/services/voice_interface.py).
\*           The receive loop handles one message at a time; a step of the
\*           model is the handling of one message from receive_text() to the
\*           next receive_text().
\*
\* Buffers are numpy arrays of samples; the model keeps their lengths,
\* counted in units of 6400 samples (0.4 s at 16 kHz, the nominal chunk).
\* Times are kept as the seconds elapsed since the instant the field holds
\* (current_time - field), which is all the code ever computes from them;
\* an elapsed time stops growing once it has passed the threshold it is
\* compared with.
\* ======================================================================

\* ------------------------------------------------------------------ bounds
MaxChunkLen == 1          \* longest audio chunk a client sends, in units
MaxAsrBuffer == 3         \* longest audio_buffer explored, in units
MaxEnrollBuffer == 2      \* longest enroll_audio_buffer explored, in units

\* ------------------------------------------------------- program constants
\* STREAMING_SILENCE_THRESHOLD = 2.0 (seconds)
STREAMING_SILENCE_THRESHOLD == 2
\* self.min_enroll_seconds = 5.0 (seconds)
min_enroll_seconds == 5
\* the literal 2.0 of "enroll_silence_timer >= 2.0"
EnrollSilenceSeconds == 2
\* int(self.kws_min_duration * 16000) = 25600 samples
KwsTargetUnits == 4
\* int(self.pre_speech_max_duration * 16000) = 6400 samples
PreSpeechTargetUnits == 1
\* len(enroll_audio_buffer) / 16000 >= 5.0, i.e. 80000 samples = 12.5 units
MinEnrollUnits == 13
\* "if self.silence_chunk_count < 2"
MaxSilenceChunks == 2

None == -1                \* a time field that is None or not set (hasattr fails)

\* StreamingASRSession.__init__
NewSession ==
    [mode |-> "WAITING_FOR_WAKEUP",
     use_wake |-> TRUE,
     use_speaker_verification |-> TRUE,
     is_activated |-> FALSE,
     is_enrolled |-> FALSE,
     enroll_audio_path |-> "None",
     is_completed |-> FALSE,
     audio_buffer |-> 0,
     pre_speech_buffer |-> 0,
     kws_audio_buffer |-> 0,
     enroll_audio_buffer |-> 0,
     has_detected_speech |-> FALSE,
     silence_chunk_count |-> 0,
     silence_timer |-> 0,
     last_voice_time |-> 0,
     enroll_has_detected_speech |-> FALSE,
     enroll_first_speech_time |-> None,
     enroll_last_voice_time |-> None,
     enroll_silence_timer |-> None]

\* the connection is accepted and the session created
InitSession ==
    /\ session = NewSession
    /\ connected = TRUE

\* the result of finalize(): a sentinel string or a recognised text (a
\* sequence of characters); spk is the speaker group the text was taken from
\* (0 = none or all), which the code logs but does not return
Outcome(tag, text, spk) == [tag |-> tag, text |-> text, spk |-> spk]

NoOutcome == Outcome("none", << >>, 0)

NoReply2 == [success |-> FALSE, text |-> << >>, message |-> "none"]

\* no finalize() call and no text in flight
FinAtRest ==
    [stage |-> "rest", use_speaker_verification |-> FALSE, is_enrolled |-> FALSE,
     enroll_audio_path |-> "None", is_activated |-> FALSE, raises |-> "none",
     groups |-> << >>, out |-> NoOutcome]

TxtAtRest ==
    [stage |-> "rest", raw |-> << >>, final |-> NoOutcome, reply |-> NoReply2,
     text |-> << >>, prev |-> << >>, applied |-> 0,
     voice_disable_llm |-> FALSE, llm_called |-> FALSE]

\* the event loop with every connection waiting in receive_text()
LoopAtRest ==
    [running |-> 0,
     pos     |-> [i \in Sessions |-> "receive"],
     inbox   |-> [i \in Sessions |-> 0]]

\* no text has been given to the segmenter
SegAtRest == [stage |-> "rest", text |-> << >>, out |-> << >>, k |-> 0, again |-> << >>]

\* no list of WAVs has been given to the concatenation
WavAtRest == [stage |-> "rest", sw |-> 0, segs |-> << >>, out |-> 0]

InitPure ==
    /\ fin = FinAtRest /\ txt = TxtAtRest /\ loop = LoopAtRest
    /\ seg = SegAtRest /\ wav = WavAtRest

Init == InitTTS /\ InitSession /\ InitPure


\* ======================================================================
\* Part I, operations
\* ------------------------------------------------ API handlers (event loop)
workerLocals == <<nseg, segIdx, batchStart, chunkBad, segFailed, pipeInst, exc>>
loadVars == <<tts_pipeline, is_loading, loading_event>>

\* start_task: fresh uuid, record created as pending, task handed to the pool
StartTask(j) ==
    /\ api.op = "none"
    /\ pc[j] = "idle"
    /\ \A k \in JobIds : k < j => pc[k] # "idle"
    /\ jobs' = (j :> NewJob) @@ jobs
    /\ queue' = Append(queue, j)
    /\ Goto(j, "queued")
    /\ reply' = [op |-> "start", id |-> j, status |-> "started", body |-> "none"]
    /\ UNCHANGED <<workerLocals, loadVars, api>>
    /\ UNCHANGED <<sessVars, pureVars>>

\* cancel_task, lines 1000-1007: lookup and the status tests
CancelBegin(j) ==
    /\ api.op = "none"
    /\ IF ~Present(j)
       THEN /\ reply' = [op |-> "cancel", id |-> j, status |-> "not_found", body |-> "none"]
            /\ api' = api
       ELSE IF CancelOutcome(StatusOf(j)) # "cancelled"
       THEN /\ reply' = [op |-> "cancel", id |-> j,
                         status |-> CancelOutcome(StatusOf(j)), body |-> "none"]
            /\ api' = api
       ELSE /\ api' = [op |-> "cancel", id |-> j, seen |-> StatusOf(j)]
            /\ reply' = NoReply
    /\ UNCHANGED <<jobs, queue, pc, workerLocals, loadVars>>
    /\ UNCHANGED <<sessVars, pureVars>>

\* cancel_task, lines 1009-1012: job["status"] = "cancelled"
CancelWrite ==
    /\ api.op = "cancel"
    /\ jobs' = SetField(api.id, "status", "cancelled")
    /\ reply' = [op |-> "cancel", id |-> api.id, status |-> "cancelled", body |-> "none"]
    /\ api' = NoApi
    /\ UNCHANGED <<queue, pc, workerLocals, loadVars>>
    /\ UNCHANGED <<sessVars, pureVars>>

\* get_result, lines 1014-1029: lookup, the chain of status tests, and for a
\* completed job **job["result"], a KeyError when the key is not there yet
GetResult(j) ==
    /\ api.op = "none"
    /\ reply' =
         IF ~Present(j)
         THEN [op |-> "result", id |-> j, status |-> "not_found", body |-> "none"]
         ELSE IF ResultOutcome(StatusOf(j)) = "completed"
         THEN IF jobs[j].result = "none"
              THEN [op |-> "result", id |-> j, status |-> "exception", body |-> "KeyError"]
              ELSE [op |-> "result", id |-> j, status |-> "completed", body |-> jobs[j].result]
         ELSE [op |-> "result", id |-> j, status |-> ResultOutcome(StatusOf(j)),
               body |-> IF ResultOutcome(StatusOf(j)) = "error" THEN jobs[j].error ELSE "none"]
    /\ UNCHANGED <<jobs, queue, pc, workerLocals, loadVars, api>>
    /\ UNCHANGED <<sessVars, pureVars>>

\* cleanup_job, lines 1033-1038
CleanupBegin(j) ==
    /\ api.op = "none"
    /\ IF ~Present(j)
       THEN /\ reply' = [op |-> "cleanup", id |-> j, status |-> "not_found", body |-> "404"]
            /\ api' = api
       ELSE IF ~CanCleanup(StatusOf(j))
       THEN /\ reply' = [op |-> "cleanup", id |-> j, status |-> "cannot_cleanup", body |-> "400"]
            /\ api' = api
       ELSE /\ api' = [op |-> "cleanup", id |-> j, seen |-> StatusOf(j)]
            /\ reply' = NoReply
    /\ UNCHANGED <<jobs, queue, pc, workerLocals, loadVars>>
    /\ UNCHANGED <<sessVars, pureVars>>

\* cleanup_job, lines 1040-1041: del self.jobs[job_id]
CleanupDelete ==
    /\ api.op = "cleanup"
    /\ jobs' = [k \in DOMAIN jobs \ {api.id} |-> jobs[k]]
    /\ reply' = [op |-> "cleanup", id |-> api.id, status |-> "deleted", body |-> "none"]
    /\ api' = NoApi
    /\ UNCHANGED <<queue, pc, workerLocals, loadVars>>
    /\ UNCHANGED <<sessVars, pureVars>>

\* ------------------------------------------------------- _ensure_pipeline
apiVars == <<api>>

\* the value the thread that performed the load hands back: the function has
\* no return statement after the load, so it is None (FALSE)
LoaderReturnsPipeline == FALSE

\* wait_if_loading: the startup preload passes False, the job workers default to True
WaitIfLoading(t) == t # PreloadThread

\* return <value> from _ensure_pipeline to the caller
EnsureReturn(t, val) ==
    IF t = PreloadThread
    THEN /\ Goto(t, "done")
         /\ UNCHANGED <<pipeInst, exc>>
    ELSE /\ Goto(t, "w524")
         /\ pipeInst' = [pipeInst EXCEPT ![t] = val]
         /\ UNCHANGED exc

\* an exception leaves _ensure_pipeline: preload_model logs it, the worker's
\* except clause receives it
EnsureRaise(t) ==
    IF t = PreloadThread
    THEN /\ Goto(t, "done")
         /\ UNCHANGED <<pipeInst, exc>>
    ELSE /\ Goto(t, "x951")
         /\ exc' = [exc EXCEPT ![t] = "load_error"]
         /\ UNCHANGED pipeInst

\* lines 91-138 up to the first wait: already loaded -> return it; loading and
\* asked to wait -> wait on the event; otherwise take _loading_lock, test the
\* pipeline again (it never goes back to None, so this second test reads what
\* the first one read) and mark the load as started
EnsureCheck(t) ==
    /\ pc[t] = "e91"
    /\ IF tts_pipeline
       THEN /\ EnsureReturn(t, TRUE)
            /\ UNCHANGED <<is_loading, loading_event>>
       ELSE IF is_loading /\ WaitIfLoading(t) /\ loading_event # "None"
       THEN /\ Goto(t, "e102")
            /\ UNCHANGED <<pipeInst, exc, is_loading, loading_event>>
       ELSE /\ is_loading' = TRUE
            /\ loading_event' = "Event"
            /\ Goto(t, "e164")
            /\ UNCHANGED <<pipeInst, exc>>
    /\ UNCHANGED <<jobs, queue, nseg, segIdx, batchStart, chunkBad, segFailed,
                   tts_pipeline, apiVars>>
    /\ Quiet

\* lines 102-107: the wait is over (set or timed out)
EnsureWait1(t) ==
    /\ pc[t] = "e102"
    /\ WaitReturns(t)
    /\ IF tts_pipeline
       THEN EnsureReturn(t, TRUE)
       ELSE /\ Goto(t, "e114")
            /\ UNCHANGED <<pipeInst, exc>>
    /\ UNCHANGED <<jobs, queue, nseg, segIdx, batchStart, chunkBad, segFailed,
                   loadVars, apiVars>>
    /\ Quiet

\* lines 114-138 after the first wait, executed while holding _loading_lock
EnsureLocked(t) ==
    /\ pc[t] = "e114"
    /\ IF tts_pipeline
       THEN /\ EnsureReturn(t, TRUE)
            /\ UNCHANGED <<is_loading, loading_event>>
       ELSE IF is_loading /\ WaitIfLoading(t) /\ loading_event # "None"
       THEN /\ Goto(t, "e127")
            /\ UNCHANGED <<pipeInst, exc, is_loading, loading_event>>
       ELSE /\ is_loading' = TRUE
            /\ loading_event' = "Event"
            /\ Goto(t, "e164")
            /\ UNCHANGED <<pipeInst, exc>>
    /\ UNCHANGED <<jobs, queue, nseg, segIdx, batchStart, chunkBad, segFailed,
                   tts_pipeline, apiVars>>
    /\ Quiet

\* lines 125-129: lock released, second wait, re-test of the pipeline
EnsureWait2(t) ==
    /\ pc[t] = "e127"
    /\ WaitReturns(t)
    /\ IF tts_pipeline
       THEN EnsureReturn(t, TRUE)
       ELSE /\ Goto(t, "e131")
            /\ UNCHANGED <<pipeInst, exc>>
    /\ UNCHANGED <<jobs, queue, nseg, segIdx, batchStart, chunkBad, segFailed,
                   loadVars, apiVars>>
    /\ Quiet

\* lines 131-138: lock re-acquired, "continue with the load": mark as loading
EnsureMark(t) ==
    /\ pc[t] = "e131"
    /\ is_loading' = TRUE
    /\ loading_event' = "Event"
    /\ Goto(t, "e164")
    /\ UNCHANGED <<jobs, queue, workerLocals, tts_pipeline, apiVars>>
    /\ Quiet

\* lines 141-226 and the end of the function: the backend initialisation and
\* the finally block. pipeline(..., dtype=...) is tried first; its TypeError is
\* swallowed; pipeline(...) without dtype then runs on every load, so a
\* pipeline assigned by the first call survives a failure of the second
\* ("okThenRaise"). The finally block clears _is_loading and sets the event;
\* then the exception propagates or the function falls off its end (None).
LoadPipeline(t, outcome) ==
    /\ pc[t] = "e164"
    /\ outcome \in {"ok", "okThenRaise", "raise"}
    /\ tts_pipeline' = IF outcome = "raise" THEN tts_pipeline ELSE TRUE
    /\ is_loading' = FALSE
    /\ loading_event' = loading_event
    /\ IF outcome = "ok" THEN EnsureReturn(t, LoaderReturnsPipeline) ELSE EnsureRaise(t)
    /\ UNCHANGED <<jobs, queue, nseg, segIdx, batchStart, chunkBad, segFailed, apiVars>>
    /\ Quiet

\* threads inside the backend initialisation
Loading == {t \in Threads : pc[t] = "e164"}

\* ------------------------------------------------- _process_tts_task_sync
restOfWorker == <<queue, loadVars, apiVars>>

\* raise <e> inside the try block of the worker
Raise(j, e) ==
    /\ Goto(j, "x951")
    /\ exc' = [exc EXCEPT ![j] = e]

\* "if self.jobs[job_id]["status"] == "cancelled"" : the lookup itself fails
\* with KeyError once the record has been deleted
CancelCheck(j, onCancelled, onGo) ==
    IF ~Present(j) THEN Raise(j, "KeyError")
    ELSE /\ Goto(j, IF StatusOf(j) = "cancelled" THEN onCancelled ELSE onGo)
         /\ UNCHANGED exc

\* the pool has a free thread and the task is the oldest one queued; the
\* thread starts with line 510: self.jobs[job_id].get("start_time", ...)
WorkerPickUp(j) ==
    /\ pc[j] = "queued"
    /\ queue # << >>
    /\ Head(queue) = j
    /\ Cardinality(Running) < PoolSize
    /\ queue' = Tail(queue)
    /\ IF Present(j)
       THEN Goto(j, "w514") /\ UNCHANGED exc
       ELSE Raise(j, "KeyError")
    /\ UNCHANGED <<jobs, nseg, segIdx, batchStart, chunkBad, segFailed, pipeInst,
                   loadVars, apiVars>>
    /\ Quiet

\* the status the worker writes at line 514, whatever the current one is
StatusOnPickUp(cur) == "processing"

\* line 514: self.jobs[job_id]["status"] = "processing"; line 523 enters
\* _ensure_pipeline()
WorkerSetProcessing(j) ==
    /\ pc[j] = "w514"
    /\ IF Present(j)
       THEN /\ jobs' = SetField(j, "status", StatusOnPickUp(StatusOf(j)))
            /\ Goto(j, "e91")
            /\ UNCHANGED exc
       ELSE /\ Raise(j, "KeyError")
            /\ UNCHANGED jobs
    /\ UNCHANGED <<nseg, segIdx, batchStart, chunkBad, segFailed, pipeInst,
                   restOfWorker>>
    /\ Quiet

\* lines 524-699, local to the thread: pipeline_instance is None ->
\* RuntimeError; n = len(_split_text_for_tts(text)), 0 -> ValueError; then the
\* batch loop for more than one segment, the single loop otherwise
WorkerPrepare(j, n) ==
    /\ pc[j] = "w524"
    /\ IF ~pipeInst[j]
       THEN /\ Raise(j, "RuntimeError: TTS pipeline not initialized")
            /\ UNCHANGED nseg
       ELSE IF n = 0
       THEN /\ Raise(j, "ValueError: empty text after normalization")
            /\ UNCHANGED nseg
       ELSE /\ Goto(j, IF UseBatchProcessing /\ n > 1 THEN "b707" ELSE "s869")
            /\ nseg' = [nseg EXCEPT ![j] = n]
            /\ UNCHANGED exc
    /\ UNCHANGED <<jobs, segIdx, batchStart, chunkBad, segFailed, pipeInst,
                   restOfWorker>>
    /\ Quiet

BatchEnd(j) == Min(batchStart[j] + BatchSize, nseg[j])

\* lines 706-865: while batch_start_idx < len(segments): cancelled -> return;
\* then the batched pipeline call. "ok": a list of WAVs came back; "fallback":
\* any failure of the batch path, handled by per-segment calls
BatchLoop(j, outcome) ==
    /\ pc[j] = "b707"
    /\ outcome \in {"ok", "fallback"}
    /\ IF batchStart[j] >= nseg[j]
       THEN /\ Goto(j, "w883")
            /\ UNCHANGED <<exc, batchStart, segIdx>>
       ELSE IF ~Present(j)
       THEN /\ Raise(j, "KeyError")
            /\ UNCHANGED <<batchStart, segIdx>>
       ELSE IF StatusOf(j) = "cancelled"
       THEN /\ Goto(j, "ret")
            /\ UNCHANGED <<exc, batchStart, segIdx>>
       ELSE IF outcome = "ok"
       THEN /\ batchStart' = [batchStart EXCEPT ![j] = BatchEnd(j)]
            /\ Goto(j, "b707")
            /\ UNCHANGED <<exc, segIdx>>
       ELSE /\ segIdx' = [segIdx EXCEPT ![j] = batchStart[j]]
            /\ Goto(j, "f842")
            /\ UNCHANGED <<exc, batchStart>>
    /\ UNCHANGED <<jobs, nseg, chunkBad, segFailed, pipeInst, restOfWorker>>
    /\ Quiet

\* lines 841-843 / 857-859: fallback loop over the indices of the batch
FallbackLoopHead(j) ==
    /\ pc[j] = "f842"
    /\ IF segIdx[j] >= BatchEnd(j)
       THEN /\ batchStart' = [batchStart EXCEPT ![j] = BatchEnd(j)]
            /\ Goto(j, "b707")
            /\ UNCHANGED exc
       ELSE /\ CancelCheck(j, "ret", "f590")
            /\ UNCHANGED batchStart
    /\ UNCHANGED <<jobs, nseg, segIdx, chunkBad, segFailed, pipeInst, restOfWorker>>
    /\ Quiet

\* lines 868-871: single-segment loop
SingleLoopHead(j) ==
    /\ pc[j] = "s869"
    /\ IF segIdx[j] >= nseg[j]
       THEN Goto(j, "w883") /\ UNCHANGED exc
       ELSE CancelCheck(j, "ret", "s590")
    /\ UNCHANGED <<jobs, nseg, segIdx, batchStart, chunkBad, segFailed, pipeInst,
                   restOfWorker>>
    /\ Quiet

\* what process_segment hands back when the pipeline call raised (line 630):
\* TRUE = an empty chunk b"" instead of the exception
SegmentFailureYieldsEmptyChunk == TRUE

\* process_segment, lines 588-656. Cancelled -> (idx, b"", ...) at once;
\* otherwise the pipeline call for the segment, whose exception is logged and
\* turned into (idx, b"", ...). The result is stored in wav_chunks[idx].
ProcessSegment(j, here, back, outcome) ==
    /\ pc[j] = here
    /\ outcome \in {"ok", "raise"}
    /\ IF ~Present(j)
       THEN /\ Raise(j, "KeyError")
            /\ UNCHANGED <<chunkBad, segFailed, segIdx>>
       ELSE /\ IF StatusOf(j) = "cancelled"
               THEN /\ chunkBad' = [chunkBad EXCEPT ![j] = TRUE]
                    /\ UNCHANGED segFailed
               ELSE IF outcome = "raise"
               THEN /\ segFailed' = [segFailed EXCEPT ![j] = TRUE]
                    /\ chunkBad' = [chunkBad EXCEPT ![j] = @ \/ SegmentFailureYieldsEmptyChunk]
               ELSE UNCHANGED <<segFailed, chunkBad>>
            /\ segIdx' = [segIdx EXCEPT ![j] = @ + 1]
            /\ Goto(j, back)
            /\ UNCHANGED exc
    /\ UNCHANGED <<jobs, nseg, batchStart, pipeInst, restOfWorker>>
    /\ Quiet

\* lines 883-913: _concat_wavs_smooth opens every chunk with wave.open, which
\* raises EOFError on b""; then base64 and the last cancel check
WorkerConcat(j) ==
    /\ pc[j] = "w883"
    /\ IF chunkBad[j]
       THEN Raise(j, "EOFError")
       ELSE CancelCheck(j, "ret", "w917")
    /\ UNCHANGED <<jobs, nseg, segIdx, batchStart, chunkBad, segFailed, pipeInst,
                   restOfWorker>>
    /\ Quiet

\* line 917: self.jobs[job_id]["status"] = "completed"
WorkerSetCompleted(j) ==
    /\ pc[j] = "w917"
    /\ IF Present(j)
       THEN /\ jobs' = SetField(j, "status", "completed")
            /\ Goto(j, "w918")
            /\ UNCHANGED exc
       ELSE /\ Raise(j, "KeyError")
            /\ UNCHANGED jobs
    /\ UNCHANGED <<nseg, segIdx, batchStart, chunkBad, segFailed, pipeInst,
                   restOfWorker>>
    /\ Quiet

\* lines 918-936: self.jobs[job_id]["result"] = {...} and the timing fields
WorkerSetResult(j) ==
    /\ pc[j] = "w918"
    /\ IF Present(j)
       THEN /\ jobs' = SetField(j, "result", "audio")
            /\ Goto(j, "ret")
            /\ UNCHANGED exc
       ELSE /\ Raise(j, "KeyError")
            /\ UNCHANGED jobs
    /\ UNCHANGED <<nseg, segIdx, batchStart, chunkBad, segFailed, pipeInst,
                   restOfWorker>>
    /\ Quiet

StatusOnException_Mut(cur) == cur

\* the status the except handler writes at line 952
StatusOnException(cur) == "error"

\* line 951: if job_id in self.jobs and status != "cancelled"
WorkerExceptTest(j) ==
    /\ pc[j] = "x951"
    /\ Goto(j, IF ExceptRecords(j) THEN "x952" ELSE "ret")
    /\ UNCHANGED <<jobs, workerLocals, restOfWorker>>
    /\ Quiet

\* the except handler as it would be if the write created a missing record
WorkerSetError_Mut(j) ==
    /\ pc[j] = "x952"
    /\ IF Present(j)
       THEN jobs' = [jobs EXCEPT ![j] = [jobs[j] EXCEPT
                        !.status = StatusOnException(StatusOf(j)),
                        !.error = exc[j]]]
       ELSE jobs' = (j :> [NewJob EXCEPT !.status = "error", !.error = exc[j]]) @@ jobs
    /\ Goto(j, "ret")
    /\ UNCHANGED <<workerLocals, restOfWorker>>
    /\ Quiet

\* lines 952-953: self.jobs[job_id]["status"] = "error" and
\* self.jobs[job_id]["error"] = str(e) (a KeyError here leaves the thread)
WorkerSetError(j) ==
    /\ pc[j] = "x952"
    /\ IF Present(j)
       THEN jobs' = [jobs EXCEPT ![j] = [jobs[j] EXCEPT
                        !.status = StatusOnException(StatusOf(j)),
                        !.error = exc[j]]]
       ELSE UNCHANGED jobs
    /\ Goto(j, "ret")
    /\ UNCHANGED <<workerLocals, restOfWorker>>
    /\ Quiet

\* _process_tts_task_sync returns: its frame is dropped and the pool thread
\* is free again
WorkerReturn(j) ==
    /\ pc[j] = "ret"
    /\ Goto(j, "done")
    /\ nseg' = [nseg EXCEPT ![j] = 0]
    /\ segIdx' = [segIdx EXCEPT ![j] = 0]
    /\ batchStart' = [batchStart EXCEPT ![j] = 0]
    /\ chunkBad' = [chunkBad EXCEPT ![j] = FALSE]
    /\ segFailed' = [segFailed EXCEPT ![j] = FALSE]
    /\ pipeInst' = [pipeInst EXCEPT ![j] = FALSE]
    /\ exc' = [exc EXCEPT ![j] = "none"]
    /\ UNCHANGED <<jobs, restOfWorker>>
    /\ Quiet

\* ------------------------------------------------------------------- Next
ApiStep ==
    \/ \E j \in JobIds : StartTask(j)
    \/ \E j \in JobIds : CancelBegin(j)
    \/ CancelWrite
    \/ \E j \in JobIds : GetResult(j)
    \/ \E j \in JobIds : CleanupBegin(j)
    \/ CleanupDelete

EnsureStep(t) ==
    \/ EnsureCheck(t)
    \/ EnsureWait1(t)
    \/ EnsureLocked(t)
    \/ EnsureWait2(t)
    \/ EnsureMark(t)
    \/ \E o \in {"ok", "okThenRaise", "raise"} : LoadPipeline(t, o)

WorkerStep(j) ==
    \/ WorkerPickUp(j)
    \/ WorkerSetProcessing(j)
    \/ \E n \in 0..MaxSegs : WorkerPrepare(j, n)
    \/ \E o \in {"ok", "fallback"} : BatchLoop(j, o)
    \/ FallbackLoopHead(j)
    \/ SingleLoopHead(j)
    \/ \E o \in {"ok", "raise"} : ProcessSegment(j, "f590", "f842", o)
    \/ \E o \in {"ok", "raise"} : ProcessSegment(j, "s590", "s869", o)
    \/ WorkerConcat(j)
    \/ WorkerSetCompleted(j)
    \/ WorkerSetResult(j)
    \/ WorkerExceptTest(j)
    \/ WorkerSetError(j)
    \/ WorkerReturn(j)

\* one step of thread t: the preload thread only runs _ensure_pipeline
ThreadStep(t) == EnsureStep(t) \/ (t \in JobIds /\ WorkerStep(t))

NextTTS ==
    \/ ApiStep
    \/ \E t \in Threads : EnsureStep(t)
    \/ \E j \in JobIds : WorkerStep(j)

SpecTTS == Init /\ [][NextTTS]_vars

\* fairness the scheduling guarantees: every pool thread and the preload
\* thread keep running (backend calls return or raise, waits time out)
FairSpecTTS == SpecTTS /\ \A t \in Threads : WF_vars(ThreadStep(t))

\* ======================================================================
\* Part II, operations
ChunkLens == 1..MaxChunkLen

\* a flag parameter of a message: absent, or a value bool() turns into a flag
Params == {"None", "True", "False"}

ParamBool(p) == p = "True"

\* the energy decision of a chunk: STREAMING_VAD_USE_AND_LOGIC = True, so the
\* mean energy (> 0.03) and the peak (> 0.17) must both be above threshold
EnergySpeech(energy_high, peak_high) == energy_high /\ peak_high

\* process_chunk: "is_speech = is_speech_energy"; the VAD model has run
\* (vad_speech) but the line that ORs its decision in is commented out
ChunkIsSpeech(energy_high, peak_high, vad_speech) ==
    EnergySpeech(energy_high, peak_high)

\* the WAITING_FOR_ENROLLMENT branch: is_speech_energy or is_speech_vad
EnrollChunkIsSpeech(energy_high, peak_high, vad_speech) ==
    EnergySpeech(energy_high, peak_high) \/ vad_speech

\* ---------------------------------------------------- StreamingASRSession
MarkEnrolledSteps_Mut(s) ==
    << [s EXCEPT !.is_enrolled = TRUE],
       [s EXCEPT !.is_enrolled = TRUE, !.enroll_audio_path = "path"] >>

\* the two assignments that record an enrollment, in program order: the
\* sample path first, is_enrolled second
MarkEnrolledSteps(s) ==
    << [s EXCEPT !.enroll_audio_path = "path"],
       [s EXCEPT !.enroll_audio_path = "path", !.is_enrolled = TRUE] >>

MarkEnrolled(s) == MarkEnrolledSteps(s)[Len(MarkEnrolledSteps(s))]

\* the two assignments that clear an enrollment, in program order:
\* is_enrolled first, the sample path second
ClearEnrolledSteps(s) ==
    << [s EXCEPT !.is_enrolled = FALSE],
       [s EXCEPT !.is_enrolled = FALSE, !.enroll_audio_path = "None"] >>

ClearEnrolled(s) == ClearEnrolledSteps(s)[Len(ClearEnrolledSteps(s))]

reset_Mut(s) ==
    [s EXCEPT !.audio_buffer = 0,
              !.silence_timer = 0,
              !.last_voice_time = 0,
              !.is_completed = FALSE,
              !.has_detected_speech = FALSE,
              !.silence_chunk_count = 0,
              !.pre_speech_buffer = 0,
              !.is_activated = FALSE,
              !.enroll_has_detected_speech = FALSE,
              !.enroll_first_speech_time = None,
              !.mode = IF s.use_wake THEN "WAITING_FOR_WAKEUP" ELSE "ASR_ACTIVE",
              !.kws_audio_buffer = 0]

\* reset(): ASR state, activation, enrollment and KWS buffer are cleared and
\* the mode follows use_wake
reset(s) ==
    [ClearEnrolled(s) EXCEPT
              !.audio_buffer = 0,
              !.silence_timer = 0,
              !.last_voice_time = 0,
              !.is_completed = FALSE,
              !.has_detected_speech = FALSE,
              !.silence_chunk_count = 0,
              !.pre_speech_buffer = 0,
              !.is_activated = FALSE,
              !.enroll_audio_buffer = 0,
              !.enroll_has_detected_speech = FALSE,
              !.enroll_first_speech_time = None,
              !.mode = IF s.use_wake THEN "WAITING_FOR_WAKEUP" ELSE "ASR_ACTIVE",
              !.kws_audio_buffer = 0]

set_use_wake_Mut(s, use_wake) == [s EXCEPT !.use_wake = use_wake]

\* set_use_wake(use_wake)
set_use_wake(s, use_wake) ==
    IF ~use_wake
    THEN IF s.mode = "WAITING_FOR_WAKEUP"
         THEN [s EXCEPT !.use_wake = use_wake, !.mode = "ASR_ACTIVE"]
         ELSE [s EXCEPT !.use_wake = use_wake]
    ELSE IF s.mode = "ASR_ACTIVE"
         THEN [s EXCEPT !.use_wake = use_wake,
                        !.mode = "WAITING_FOR_WAKEUP",
                        !.kws_audio_buffer = 0,
                        !.is_activated = FALSE]
         ELSE [s EXCEPT !.use_wake = use_wake]

reset_asr_state_Mut(s) ==
    [s EXCEPT !.audio_buffer = 0,
              !.silence_timer = 0,
              !.last_voice_time = 0,
              !.is_completed = FALSE,
              !.has_detected_speech = FALSE,
              !.silence_chunk_count = 0,
              !.pre_speech_buffer = 0,
              !.is_enrolled = FALSE,
              !.enroll_audio_path = "None"]

\* reset_asr_state(): ASR state only; mode and activation stay
reset_asr_state(s) ==
    [s EXCEPT !.audio_buffer = 0,
              !.silence_timer = 0,
              !.last_voice_time = 0,
              !.is_completed = FALSE,
              !.has_detected_speech = FALSE,
              !.silence_chunk_count = 0,
              !.pre_speech_buffer = 0]

\* what _perform_kws_detection clears once the wake word is recognised
\* (lines 1442-1459): the KWS buffer and the ASR buffer, timer and flag
ClearedOnWake(s) ==
    [s EXCEPT !.kws_audio_buffer = 0,
              !.audio_buffer = 0,
              !.silence_timer = 0,
              !.last_voice_time = 0,
              !.is_completed = FALSE]

KwsOutcomes == {"wake", "rejected", "no_model"}

\* _perform_kws_detection: "wake" = the model returns a text that is neither
\* empty nor "rejected"; "rejected" = any other result or an exception (the
\* buffer is cleared); "no_model" = the KWS model instance is None
perform_kws_detection(s, kws) ==
    IF s.kws_audio_buffer = 0 THEN [s |-> s, ret |-> FALSE]
    ELSE IF kws = "no_model" THEN [s |-> s, ret |-> FALSE]
    ELSE IF kws = "wake" THEN [s |-> ClearedOnWake(s), ret |-> TRUE]
    ELSE [s |-> [s EXCEPT !.kws_audio_buffer = 0], ret |-> FALSE]

\* the accumulation without the sliding window
process_wakeup_chunk_Mut(s, len, kws) ==
    LET s1 == [s EXCEPT !.kws_audio_buffer = @ + len]
    IN  IF s1.kws_audio_buffer >= KwsTargetUnits
        THEN perform_kws_detection(s1, kws)
        ELSE [s |-> s1, ret |-> FALSE]

\* process_wakeup_chunk: append, keep the newest 1600 ms, detect when full
process_wakeup_chunk(s, len, kws) ==
    LET s1 == [s EXCEPT !.kws_audio_buffer = Min(@ + len, KwsTargetUnits)]
    IN  IF s1.kws_audio_buffer >= KwsTargetUnits
        THEN perform_kws_detection(s1, kws)
        ELSE [s |-> s1, ret |-> FALSE]

\* process_chunk, lines 1633-1660: enrollment from ASR audio, only for an
\* activated session; save_ok = _save_enroll_sample returned a path
EnrollFromChunk(s, len, is_speech, save_ok) ==
    IF s.use_speaker_verification /\ ~s.is_enrolled /\ is_speech /\ s.is_activated
    THEN IF s.enroll_audio_buffer + len >= MinEnrollUnits /\ save_ok
         THEN [MarkEnrolled(s) EXCEPT !.enroll_audio_buffer = 0]
         ELSE [s EXCEPT !.enroll_audio_buffer = @ + len]
    ELSE IF s.use_speaker_verification /\ ~s.is_enrolled /\ is_speech /\ ~s.is_activated
    THEN [s EXCEPT !.enroll_audio_buffer = 0]
    ELSE s

\* the accumulation with a tail of three silence chunks
Accumulate_Mut(s, len, is_speech) ==
    IF is_speech
    THEN [s EXCEPT !.silence_timer = 0,
                   !.last_voice_time = 0,
                   !.has_detected_speech = TRUE,
                   !.silence_chunk_count = 0,
                   !.audio_buffer = @ + s.pre_speech_buffer + len,
                   !.pre_speech_buffer = 0]
    ELSE IF s.has_detected_speech
    THEN IF s.silence_chunk_count <= MaxSilenceChunks
         THEN [s EXCEPT !.audio_buffer = @ + len,
                        !.silence_chunk_count = @ + 1,
                        !.silence_timer = s.last_voice_time]
         ELSE [s EXCEPT !.silence_timer = s.last_voice_time]
    ELSE [s EXCEPT !.pre_speech_buffer = Min(@ + len, PreSpeechTargetUnits),
                   !.silence_timer = 0]

\* process_chunk, lines 1672-1747: timers, flags and accumulation
Accumulate(s, len, is_speech) ==
    IF is_speech
    THEN [s EXCEPT !.silence_timer = 0,
                   !.last_voice_time = 0,
                   !.has_detected_speech = TRUE,
                   !.silence_chunk_count = 0,
                   !.audio_buffer = @ + s.pre_speech_buffer + len,
                   !.pre_speech_buffer = 0]
    ELSE IF s.has_detected_speech
    THEN IF s.silence_chunk_count < MaxSilenceChunks
         THEN [s EXCEPT !.audio_buffer = @ + len,
                        !.silence_chunk_count = @ + 1,
                        !.silence_timer = s.last_voice_time]
         ELSE [s EXCEPT !.silence_timer = s.last_voice_time]
    ELSE [s EXCEPT !.pre_speech_buffer = Min(@ + len, PreSpeechTargetUnits),
                   !.silence_timer = 0]

ShouldFinalize_Mut(s) == s.audio_buffer > 0 /\ s.has_detected_speech

\* process_chunk, lines 1816-1818
ShouldFinalize(s) ==
    /\ s.silence_timer >= STREAMING_SILENCE_THRESHOLD
    /\ s.audio_buffer > 0
    /\ s.has_detected_speech

\* process_chunk: is_speech is the energy test of the chunk
process_chunk(s, len, is_speech, save_ok) ==
    LET s2 == Accumulate(EnrollFromChunk(s, len, is_speech, save_ok), len, is_speech)
    IN  [s |-> s2, is_speech |-> is_speech, should_finalize |-> ShouldFinalize(s2)]

\* finalize(): the texts it can return in a given state. The recogniser may
\* find nothing; with verification on and a sample enrolled the text is
\* withheld from a session that is not activated and from a speaker that
\* fails verification
FinalizeOutcomes(s) ==
    IF s.audio_buffer = 0 THEN {"__ASR_RESULT_EMPTY__"}
    ELSE {"__ASR_RESULT_EMPTY__"} \cup
         (IF s.use_speaker_verification /\ s.is_enrolled /\ s.enroll_audio_path # "None"
          THEN IF ~s.is_activated THEN {"__SV_NOT_ACTIVATED__"}
               ELSE {"text", "__SV_VERIFICATION_FAILED__"}
          ELSE {"text"})

AllFinalTexts == {"__ASR_RESULT_EMPTY__", "__SV_NOT_ACTIVATED__",
                  "__SV_VERIFICATION_FAILED__", "text"}

\* ------------------------------------------- speech_recognition_websocket
\* lines 304-332: the use_wake and use_sv parameters of a message
ApplyFlags(s, use_wake_param, use_sv_param) ==
    LET s1 == IF use_wake_param # "None" /\ s.use_wake # ParamBool(use_wake_param)
              THEN set_use_wake(s, ParamBool(use_wake_param))
              ELSE s
    IN  IF use_sv_param # "None" /\ s1.use_speaker_verification # ParamBool(use_sv_param)
        THEN IF ParamBool(use_sv_param)
             THEN [s1 EXCEPT !.use_speaker_verification = TRUE]
             ELSE [ClearEnrolled([s1 EXCEPT !.use_speaker_verification = FALSE])
                       EXCEPT !.enroll_audio_buffer = 0]
        ELSE s1

\* lines 306 and 316: a parameter that repeats the session's current flag is
\* handled exactly like an absent one, so the messages enumerated carry
\* either no parameter or one that changes the flag
ChangesOrAbsent(s, use_wake_param, use_sv_param) ==
    /\ use_wake_param \in {"None", IF s.use_wake THEN "False" ELSE "True"}
    /\ use_sv_param \in {"None", IF s.use_speaker_verification THEN "False" ELSE "True"}

\* lines 354-358: a completed round is reset before the next chunk
ResetIfCompleted(s) == IF s.is_completed THEN reset(s) ELSE s

\* the session as it is when the audio of a message reaches the mode switch
BeforeAudio(s, uw, usv) == ResetIfCompleted(ApplyFlags(s, uw, usv))

\* lines 375-430: the WAITING_FOR_WAKEUP branch
WakeupBranch(s, len, kws) ==
    LET r == process_wakeup_chunk(s, len, kws)
    IN  IF r.ret
        THEN LET s1 == [r.s EXCEPT !.is_activated = TRUE,
                                   !.mode = "WAITING_FOR_ENROLLMENT"]
             IN  [s |-> IF s1.audio_buffer > 0
                        THEN [s1 EXCEPT !.audio_buffer = 0,
                                        !.silence_timer = 0,
                                        !.last_voice_time = 0,
                                        !.is_completed = FALSE]
                        ELSE s1,
                  sent |-> <<"wakeup:activated">>,
                  ret |-> TRUE]
        ELSE [s |-> [r.s EXCEPT !.is_activated = FALSE],
              sent |-> << >>,
              ret |-> FALSE]

\* lines 486-507: speech marks the start of the sample and restarts the
\* silence timer; silence measures the time since the last voice
EnrollTimers(s, is_speech) ==
    IF is_speech
    THEN [s EXCEPT !.enroll_has_detected_speech = TRUE,
                   !.enroll_first_speech_time =
                        IF s.enroll_has_detected_speech THEN @ ELSE 0,
                   !.enroll_last_voice_time = 0,
                   !.enroll_silence_timer = 0]
    ELSE IF s.enroll_last_voice_time # None
    THEN [s EXCEPT !.enroll_silence_timer = s.enroll_last_voice_time]
    ELSE [s EXCEPT !.enroll_last_voice_time = 0,
                   !.enroll_silence_timer = 0]

ShouldAutoSwitch_Mut(s) ==
    /\ s.enroll_has_detected_speech
    /\ s.enroll_first_speech_time # None
    /\ s.enroll_first_speech_time >= min_enroll_seconds

\* lines 527-552: should_auto_switch
ShouldAutoSwitch(s) ==
    /\ s.enroll_has_detected_speech
    /\ s.enroll_first_speech_time # None
    /\ s.enroll_first_speech_time >= min_enroll_seconds
    /\ s.enroll_silence_timer # None
    /\ s.enroll_silence_timer >= EnrollSilenceSeconds

\* lines 436-595: the WAITING_FOR_ENROLLMENT branch; models_ok = the
\* streaming models are available (otherwise the exception is logged and
\* the chunk dropped)
EnrollmentBranch(s, len, is_speech, save_ok, models_ok) ==
    IF ~models_ok THEN [s |-> s, sent |-> << >>]
    ELSE
    LET s1 == EnrollTimers(s, is_speech)
        s2 == IF s1.enroll_has_detected_speech
              THEN [s1 EXCEPT !.enroll_audio_buffer = @ + len]
              ELSE s1
    IN  IF ShouldAutoSwitch(s2) /\ ~s2.is_enrolled /\ save_ok
        THEN [s |-> [MarkEnrolled(s2) EXCEPT
                               !.enroll_audio_buffer = 0,
                               !.mode = "WAITING_FOR_ENROLLMENT_CONFIRM",
                               !.enroll_last_voice_time = None,
                               !.enroll_silence_timer = None,
                               !.enroll_has_detected_speech = FALSE,
                               !.enroll_first_speech_time = None],
              sent |-> <<"enrollment_completed">>]
        ELSE [s |-> s2, sent |-> << >>]

\* lines 635-874: the result frame for the text finalize() returned
ResultFrame(final_text) ==
    IF final_text = "text" THEN "result:success" ELSE "result:failure"

\* _save_enroll_sample() is called by the chunk: only then has it an outcome
\* (line 557 in WAITING_FOR_ENROLLMENT, line 1642 inside process_chunk)
EnrollSaveCalled(s, len, is_speech) ==
    LET s1 == EnrollTimers(s, is_speech)
    IN  ShouldAutoSwitch(s1) /\ ~s1.is_enrolled

AsrSaveCalled(s, len, is_speech) ==
    /\ s.use_speaker_verification /\ ~s.is_enrolled /\ is_speech /\ s.is_activated
    /\ s.enroll_audio_buffer + len >= MinEnrollUnits

AsrBranch_Mut(s, len, is_speech, save_ok, final_text) ==
    LET r == process_chunk(s, len, is_speech, save_ok)
    IN  IF r.should_finalize
        THEN [s |-> r.s,
              sent |-> <<"processing:finalizing", ResultFrame(final_text)>>,
              ret |-> r]
        ELSE [s |-> r.s, sent |-> << >>, ret |-> r]

\* lines 608-888: the ASR_ACTIVE branch
AsrBranch(s, len, is_speech, save_ok, final_text) ==
    LET r == process_chunk(s, len, is_speech, save_ok)
    IN  IF r.should_finalize
        THEN [s |-> reset_asr_state(r.s),
              sent |-> <<"processing:finalizing", ResultFrame(final_text)>>,
              ret |-> r]
        ELSE [s |-> r.s, sent |-> << >>, ret |-> r]

\* lines 227-237: {"type": "end_conversation"}
HandleEndConversation(s) ==
    [s |-> reset(s), sent |-> <<"status:conversation_ended">>]

\* lines 240-264: {"type": "cancel_enrollment"}
HandleCancelEnrollment(s) ==
    [s |-> [reset(set_use_wake(s, TRUE)) EXCEPT !.mode = "WAITING_FOR_WAKEUP"],
     sent |-> <<"status:enrollment_cancelled">>]

\* lines 267-302: {"type": "start_asr"}
HandleStartAsr(s) ==
    IF s.mode \in {"WAITING_FOR_ENROLLMENT", "WAITING_FOR_ENROLLMENT_CONFIRM"}
    THEN [s |-> [s EXCEPT !.mode = "ASR_ACTIVE",
                          !.audio_buffer = 0,
                          !.silence_timer = 0,
                          !.last_voice_time = 0,
                          !.is_completed = FALSE,
                          !.pre_speech_buffer = 0,
                          !.has_detected_speech = FALSE],
          sent |-> <<"status:asr_started">>]
    ELSE [s |-> s, sent |-> << >>]

\* lines 304-352: the flags are applied, then the message has no audio field
HandleAudioMissing(s, uw, usv) ==
    [s |-> ApplyFlags(s, uw, usv), sent |-> <<"error:MISSING_AUDIO_DATA">>]

\* lines 304-372: base64_to_audio_np raises
HandleAudioUndecodable(s, uw, usv) ==
    [s |-> BeforeAudio(s, uw, usv), sent |-> <<"error:AUDIO_DECODE_ERROR">>]

\* lines 881-888: process_chunk raises before it touches the session (the
\* streaming models cannot be initialised)
HandleModelsDown(s, uw, usv) ==
    [s |-> BeforeAudio(s, uw, usv), sent |-> <<"error:PROCESSING_ERROR">>]

\* ---------------------------------------------------------------- actions
\* time.time() moves on by a second between two messages
Elapse(t, cap) == IF t = None THEN None ELSE Min(t + 1, cap)

Tick ==
    /\ connected
    /\ session' = [session EXCEPT
                     !.last_voice_time = Elapse(@, STREAMING_SILENCE_THRESHOLD),
                     !.enroll_first_speech_time = Elapse(@, min_enroll_seconds),
                     !.enroll_last_voice_time = Elapse(@, EnrollSilenceSeconds)]
    /\ UNCHANGED connected
    /\ UNCHANGED <<ttsVars, pureVars>>

EndConversation ==
    /\ connected
    /\ session' = HandleEndConversation(session).s
    /\ UNCHANGED connected
    /\ UNCHANGED <<ttsVars, pureVars>>

CancelEnrollment ==
    /\ connected
    /\ session' = HandleCancelEnrollment(session).s
    /\ UNCHANGED connected
    /\ UNCHANGED <<ttsVars, pureVars>>

StartAsr ==
    /\ connected
    /\ session' = HandleStartAsr(session).s
    /\ UNCHANGED connected
    /\ UNCHANGED <<ttsVars, pureVars>>

AudioMissing(uw, usv) ==
    /\ connected
    /\ ChangesOrAbsent(session, uw, usv)
    /\ session' = HandleAudioMissing(session, uw, usv).s
    /\ UNCHANGED connected
    /\ UNCHANGED <<ttsVars, pureVars>>

AudioUndecodable(uw, usv) ==
    /\ connected
    /\ ChangesOrAbsent(session, uw, usv)
    /\ session' = HandleAudioUndecodable(session, uw, usv).s
    /\ UNCHANGED connected
    /\ UNCHANGED <<ttsVars, pureVars>>

\* a chunk that arrives in WAITING_FOR_WAKEUP
AudioInWakeup(uw, usv, len, kws) ==
    /\ connected
    /\ ChangesOrAbsent(session, uw, usv)
    /\ BeforeAudio(session, uw, usv).mode = "WAITING_FOR_WAKEUP"
    /\ session' = WakeupBranch(BeforeAudio(session, uw, usv), len, kws).s
    /\ UNCHANGED connected
    /\ UNCHANGED <<ttsVars, pureVars>>

\* a chunk that arrives in WAITING_FOR_ENROLLMENT
AudioInEnrollment(uw, usv, len, is_speech, save_ok, models_ok) ==
    /\ connected
    /\ ChangesOrAbsent(session, uw, usv)
    /\ BeforeAudio(session, uw, usv).mode = "WAITING_FOR_ENROLLMENT"
    /\ IF save_ok THEN TRUE
       ELSE models_ok /\ EnrollSaveCalled(BeforeAudio(session, uw, usv), len, is_speech)
    /\ LET r == EnrollmentBranch(BeforeAudio(session, uw, usv), len, is_speech,
                                 save_ok, models_ok)
       IN  /\ r.s.enroll_audio_buffer <= MaxEnrollBuffer
           /\ session' = r.s
    /\ UNCHANGED connected
    /\ UNCHANGED <<ttsVars, pureVars>>

\* the confirm branch as it would be if a chunk counted as the confirmation
HandleAudioInConfirm_Mut(s, uw, usv) ==
    [s    |-> [BeforeAudio(s, uw, usv) EXCEPT !.mode = "ASR_ACTIVE"],
     sent |-> << >>]

\* lines 598-605: the branch for WAITING_FOR_ENROLLMENT_CONFIRM logs and
\* continues; the flags of the message and the reset of a completed round
\* (lines 304-358) have run before it
HandleAudioInConfirm(s, uw, usv) ==
    [s    |-> BeforeAudio(s, uw, usv),
     sent |-> << >>]

\* a chunk that arrives in WAITING_FOR_ENROLLMENT_CONFIRM is dropped
AudioInConfirm(uw, usv) ==
    /\ connected
    /\ ChangesOrAbsent(session, uw, usv)
    /\ BeforeAudio(session, uw, usv).mode = "WAITING_FOR_ENROLLMENT_CONFIRM"
    /\ session' = HandleAudioInConfirm(session, uw, usv).s
    /\ UNCHANGED connected
    /\ UNCHANGED <<ttsVars, pureVars>>

\* a chunk that arrives in ASR_ACTIVE
AudioInAsr(uw, usv, len, is_speech, save_ok, final_text) ==
    /\ connected
    /\ ChangesOrAbsent(session, uw, usv)
    /\ BeforeAudio(session, uw, usv).mode = "ASR_ACTIVE"
    /\ IF save_ok THEN TRUE
       ELSE AsrSaveCalled(BeforeAudio(session, uw, usv), len, is_speech)
    /\ LET s0 == BeforeAudio(session, uw, usv)
           mid == process_chunk(s0, len, is_speech, save_ok)
       IN  /\ mid.s.audio_buffer <= MaxAsrBuffer
           /\ mid.s.enroll_audio_buffer <= MaxEnrollBuffer
           /\ final_text \in (IF mid.should_finalize THEN FinalizeOutcomes(mid.s)
                              ELSE {"text"})
           /\ session' = AsrBranch(s0, len, is_speech, save_ok, final_text).s
    /\ UNCHANGED connected
    /\ UNCHANGED <<ttsVars, pureVars>>

AudioModelsDown(uw, usv) ==
    /\ connected
    /\ ChangesOrAbsent(session, uw, usv)
    /\ BeforeAudio(session, uw, usv).mode = "ASR_ACTIVE"
    /\ session' = HandleModelsDown(session, uw, usv).s
    /\ UNCHANGED connected
    /\ UNCHANGED <<ttsVars, pureVars>>

\* lines 897-926: the client goes away; the finally clause resets the session
Disconnect ==
    /\ connected
    /\ connected' = FALSE
    /\ session' = reset(session)
    /\ UNCHANGED <<ttsVars, pureVars>>

NextSession ==
    \/ Tick
    \/ EndConversation
    \/ CancelEnrollment
    \/ StartAsr
    \/ \E uw \in Params, usv \in Params : AudioMissing(uw, usv)
    \/ \E uw \in Params, usv \in Params : AudioUndecodable(uw, usv)
    \/ \E uw \in Params, usv \in Params, len \in ChunkLens, kws \in KwsOutcomes :
           AudioInWakeup(uw, usv, len, kws)
    \/ \E uw \in Params, usv \in Params, len \in ChunkLens,
          is_speech \in {EnrollChunkIsSpeech(e, p, v) : e \in BOOLEAN, p \in BOOLEAN, v \in BOOLEAN},
          save_ok \in BOOLEAN, models_ok \in BOOLEAN :
           AudioInEnrollment(uw, usv, len, is_speech, save_ok, models_ok)
    \/ \E uw \in Params, usv \in Params : AudioInConfirm(uw, usv)
    \/ \E uw \in Params, usv \in Params, len \in ChunkLens,
          is_speech \in {ChunkIsSpeech(e, p, v) : e \in BOOLEAN, p \in BOOLEAN, v \in BOOLEAN},
          save_ok \in BOOLEAN, final_text \in AllFinalTexts :
           AudioInAsr(uw, usv, len, is_speech, save_ok, final_text)
    \/ \E uw \in Params, usv \in Params : AudioModelsDown(uw, usv)
    \/ Disconnect

SpecSession == Init /\ [][NextSession]_vars

\* ======================================================================
\* Part III: pure functions of the voice service
\*
\* A text is a sequence of characters.  Scores are in hundredths
\* (0.40 = 40); a score of None is "the pipeline gave no score or raised".
\* ======================================================================

\* ------------------------------------------------------------------ bounds
MaxGroups == 2            \* most speaker groups in one finalize()
MaxTextLen == 3           \* longest recognised text, in characters
MaxApplications == 2      \* how often the corrector is applied to its output

\* ------------------------------------------------------- program constants
\* self.sv_threshold = 0.40
sv_threshold == 40
\* 'score': score if score is not None else -1.0
NoScoreStored == -100

\* Characters are written by code point: "U+4E94" is the character 五.
\* the character class of the two re.sub calls that remove punctuation,
\* [，。！？、；：""（）【】《》〈〉「」『』〔〕〖〗…—～·\s]: the two apostrophes in
\* the source end one string literal and begin the next, so the apostrophe
\* is not in the class; " " stands for the whitespace characters
PunctClass ==
    {"U+FF0C", "U+3002", "U+FF01", "U+FF1F", "U+3001", "U+FF1B", "U+FF1A",
     "\"", "U+FF08", "U+FF09", "U+3010", "U+3011", "U+300A", "U+300B",
     "U+3008", "U+3009", "U+300C", "U+300D", "U+300E", "U+300F", "U+3014",
     "U+3015", "U+3016", "U+3017", "U+2026", "U+2014", "U+FF5E", "U+00B7",
     " "}

\* finalize(): interjections = {嗯 哈 哼 噗 砰 呀 嗷 啊 哦 额 呃 诶 唉 哎}
interjections ==
    {"U+55EF", "U+54C8", "U+54FC", "U+5657", "U+7830", "U+5440", "U+55F7", "U+554A", "U+54E6", "U+989D", "U+5443", "U+8BF6",
     "U+5509", "U+54CE"}

\* the handler: interjection_pattern = r'[嗯哈哼噗砰呀嗷啊哦额呃诶唉哎呦妈]+'
interjection_pattern ==
    {"U+55EF", "U+54C8", "U+54FC", "U+5657", "U+7830", "U+5440", "U+55F7", "U+554A", "U+54E6", "U+989D", "U+5443", "U+8BF6",
     "U+5509", "U+54CE", "U+5466", "U+5988"}

\* the list of the single-character rule: 五 乌 吴 屋 舞 5 午 吾 芜
should_correct_to_wu == {"U+4E94", "U+4E4C", "U+5434", "U+5C4B", "U+821E", "5", "U+5348", "U+543E", "U+829C"}

\* the global replacements of rules 2-14, in program order: 前妻->前期,
\* 黑边 黑变->黑便, 腾 藤 滕 誊->疼, 壳->咳, 气势->前期, 串 川->喘, 涨 账->胀,
\* 脱腾 拖腾 拖疼 脱疼->头疼, 游离 游历->油腻, 颜面不通->颜面部痛, 即性->急性,
\* 犯罪症状->伴随症状, 树叶 书页 术业 树业->输液
Substitutions ==
    << << <<"U+524D","U+59BB">>, <<"U+524D","U+671F">> >>,
       << <<"U+9ED1","U+8FB9">>, <<"U+9ED1","U+4FBF">> >>,
       << <<"U+9ED1","U+53D8">>, <<"U+9ED1","U+4FBF">> >>,
       << <<"U+817E">>, <<"U+75BC">> >>,
       << <<"U+85E4">>, <<"U+75BC">> >>,
       << <<"U+6ED5">>, <<"U+75BC">> >>,
       << <<"U+8A8A">>, <<"U+75BC">> >>,
       << <<"U+58F3">>, <<"U+54B3">> >>,
       << <<"U+6C14","U+52BF">>, <<"U+524D","U+671F">> >>,
       << <<"U+4E32">>, <<"U+5598">> >>,
       << <<"U+5DDD">>, <<"U+5598">> >>,
       << <<"U+6DA8">>, <<"U+80C0">> >>,
       << <<"U+8D26">>, <<"U+80C0">> >>,
       << <<"U+8131","U+817E">>, <<"U+5934","U+75BC">> >>,
       << <<"U+62D6","U+817E">>, <<"U+5934","U+75BC">> >>,
       << <<"U+62D6","U+75BC">>, <<"U+5934","U+75BC">> >>,
       << <<"U+8131","U+75BC">>, <<"U+5934","U+75BC">> >>,
       << <<"U+6E38","U+79BB">>, <<"U+6CB9","U+817B">> >>,
       << <<"U+6E38","U+5386">>, <<"U+6CB9","U+817B">> >>,
       << <<"U+989C","U+9762","U+4E0D","U+901A">>, <<"U+989C","U+9762","U+90E8","U+75DB">> >>,
       << <<"U+5373","U+6027">>, <<"U+6025","U+6027">> >>,
       << <<"U+72AF","U+7F6A","U+75C7","U+72B6">>, <<"U+4F34","U+968F","U+75C7","U+72B6">> >>,
       << <<"U+6811","U+53F6">>, <<"U+8F93","U+6DB2">> >>,
       << <<"U+4E66","U+9875">>, <<"U+8F93","U+6DB2">> >>,
       << <<"U+672F","U+4E1A">>, <<"U+8F93","U+6DB2">> >>,
       << <<"U+6811","U+4E1A">>, <<"U+8F93","U+6DB2">> >> >>

\* ------------------------------------------------------------- input sets
\* characters of the recognised texts explored: punctuation, an interjection
\* of both sets, one of the handler's set only, a character of the
\* single-character rule, the two halves of a replaced word, a plain one:
\* ， 嗯 妈 五 前 妻 头
Chars == {"U+FF0C", "U+55EF", "U+5988", "U+4E94", "U+524D", "U+59BB", "U+5934"}

Texts == UNION {[1..n -> Chars] : n \in 0..MaxTextLen}

Scores == {None, 39, 40}

Verdicts == {"yes", "no"}

\* the sentences of one speaker: whether _extract_speaker_audio found audio,
\* what the verification pipeline answered, the joined text (头疼 or 嗯)
Groups ==
    [audio_empty : BOOLEAN, score : Scores, verdict : Verdicts,
     text : {<<"U+5934", "U+75BC">>, <<"U+55EF">>}]

GroupSeqs == UNION {[1..n -> Groups] : n \in 0..MaxGroups}

\* ------------------------------------------------------------- finalize()
\* _is_sv_verified(verdict_text, score)
is_sv_verified(verdict_text, score) ==
    IF score = None THEN FALSE
    ELSE IF score >= sv_threshold THEN TRUE
    ELSE IF score < sv_threshold THEN FALSE
    ELSE IF verdict_text = "yes" THEN TRUE
    ELSE FALSE

\* speaker_scores[spk_id]['score']
StoredScore(g) == IF g.score = None THEN NoScoreStored ELSE g.score

\* the keys of speaker_scores in dict order: groups without audio are skipped
ScoredIds(groups) ==
    SelectSeq([i \in 1..Len(groups) |-> i], LAMBDA i : ~groups[i].audio_empty)

\* max(speaker_scores.keys(), key=score): the first key with the top score
BestSpk(groups) ==
    LET ids == ScoredIds(groups)
    IN  ids[CHOOSE k \in DOMAIN ids :
              /\ \A j \in DOMAIN ids :
                    StoredScore(groups[ids[j]]) <= StoredScore(groups[ids[k]])
              /\ \A j \in 1..(k - 1) :
                    StoredScore(groups[ids[j]]) < StoredScore(groups[ids[k]])]

SelectBySV_Mut(groups) ==
    LET ids == ScoredIds(groups)
    IN  IF Len(ids) = 0
        THEN Outcome("__SV_VERIFICATION_FAILED__", << >>, 0)
        ELSE IF Len(ids) = 1
        THEN Outcome("text", groups[ids[1]].text, ids[1])
        ELSE LET best_spk_id == BestSpk(groups)
             IN  IF StoredScore(groups[best_spk_id]) >= sv_threshold
                 THEN Outcome("text", groups[best_spk_id].text, best_spk_id)
                 ELSE Outcome("__SV_VERIFICATION_FAILED__", << >>, 0)

\* lines 2189-2245: the selection among the verified speaker groups
SelectBySV(groups) ==
    LET ids == ScoredIds(groups)
    IN  IF Len(ids) = 0
        THEN Outcome("__SV_VERIFICATION_FAILED__", << >>, 0)
        ELSE IF Len(ids) = 1
        THEN IF is_sv_verified(groups[ids[1]].verdict, groups[ids[1]].score)
             THEN Outcome("text", groups[ids[1]].text, ids[1])
             ELSE Outcome("__SV_VERIFICATION_FAILED__", << >>, 0)
        ELSE LET best_spk_id == BestSpk(groups)
             IN  IF StoredScore(groups[best_spk_id]) >= sv_threshold
                 THEN Outcome("text", groups[best_spk_id].text, best_spk_id)
                 ELSE Outcome("__SV_VERIFICATION_FAILED__", << >>, 0)

RECURSIVE JoinTexts(_)
\* ''.join of the texts of all groups, by speaker id
JoinTexts(groups) ==
    IF groups = << >> THEN << >>
    ELSE Head(groups).text \o JoinTexts(Tail(groups))

\* lines 2276-2303: the filter on the value about to be returned; a sentinel
\* is neither empty nor made of interjections and passes unchanged
FinalFilter(o) ==
    IF o.tag # "text" THEN o
    ELSE IF o.text = << >> THEN Outcome("__ASR_RESULT_EMPTY__", << >>, 0)
    ELSE LET text_without_punct == SelectSeq(o.text, LAMBDA c : c \notin PunctClass)
         IN  IF text_without_punct # << >>
             THEN IF \A i \in DOMAIN text_without_punct :
                        text_without_punct[i] \in interjections
                  THEN Outcome("__ASR_RESULT_EMPTY__", << >>, 0)
                  ELSE o
             ELSE Outcome("__ASR_RESULT_EMPTY__", << >>, 0)

\* lines 1969-2268: the value of final_text before the filter.  raises says
\* where an exception is thrown: in the recogniser ("asr"), while a speaker's
\* audio is cut and saved ("sv"), or nowhere; no groups = no sentence_info
FinalText(f) ==
    IF f.raises = "asr" \/ f.groups = << >>
    THEN Outcome("__ASR_RESULT_EMPTY__", << >>, 0)
    ELSE IF f.use_speaker_verification /\ f.is_enrolled /\ f.enroll_audio_path # "None"
    THEN IF ~f.is_activated
         THEN Outcome("__SV_NOT_ACTIVATED__", << >>, 0)
         ELSE IF f.raises = "sv"
              THEN Outcome("__ASR_RESULT_EMPTY__", << >>, 0)
              ELSE SelectBySV(f.groups)
    ELSE Outcome("text", JoinTexts(f.groups), 0)

\* finalize()
finalize(f) == FinalFilter(FinalText(f))

\* a finalize() call on a session whose flags and recogniser results are
\* drawn from the input sets
InitFinalize ==
    /\ InitTTS /\ InitSession /\ txt = TxtAtRest /\ loop = LoopAtRest /\ seg = SegAtRest
    /\ wav = WavAtRest
    /\ \E usv \in BOOLEAN, en \in BOOLEAN, act \in BOOLEAN,
          r \in {"none", "asr", "sv"}, gs \in GroupSeqs :
          fin = [stage |-> "called", use_speaker_verification |-> usv,
                 is_enrolled |-> en,
                 enroll_audio_path |-> IF en THEN "path" ELSE "None",
                 is_activated |-> act, raises |-> r, groups |-> gs,
                 out |-> NoOutcome]

Finalize ==
    /\ fin.stage = "called"
    /\ fin' = [fin EXCEPT !.stage = "returned", !.out = finalize(fin)]
    /\ UNCHANGED <<ttsVars, sessVars, txt, loop, seg, wav>>

NextFinalize == Finalize

SpecFinalize == InitFinalize /\ [][NextFinalize]_vars

\* ------------------------------------------- speech_recognition_websocket
RECURSIVE Replace(_, _, _)
\* str.replace(old, new): every non-overlapping occurrence, left to right
Replace(t, old, new) ==
    IF Len(t) < Len(old) THEN t
    ELSE IF SubSeq(t, 1, Len(old)) = old
    THEN new \o Replace(SubSeq(t, Len(old) + 1, Len(t)), old, new)
    ELSE <<Head(t)>> \o Replace(Tail(t), old, new)

RECURSIVE ReplaceFrom(_, _)
\* lines 682-797: rules 2-14 from the k-th replacement on
ReplaceFrom(t, k) ==
    IF k > Len(Substitutions) THEN t
    ELSE ReplaceFrom(Replace(t, Substitutions[k][1], Substitutions[k][2]), k + 1)

\* lines 674-680: rule 1, a text that is one listed character once its
\* punctuation is removed becomes 无
CorrectToWu(t) ==
    LET text_without_punct == SelectSeq(t, LAMBDA c : c \notin PunctClass)
    IN  IF Len(text_without_punct) = 1 /\ text_without_punct[1] \in should_correct_to_wu
        THEN <<"U+65E0">>
        ELSE t

\* lines 807-811: rule 15, every run of interjection characters is removed
StripInterjections(t) == SelectSeq(t, LAMBDA c : c \notin interjection_pattern)

HardCorrect_Mut(t) == ReplaceFrom(CorrectToWu(StripInterjections(t)), 1)

\* lines 666-815: the deterministic rules, in program order
HardCorrect(t) == StripInterjections(ReplaceFrom(CorrectToWu(t), 1))

\* what correct_text_only can do with a text: raise, or return the same
\* text, an empty one, other words (头疼) or punctuation alone (，)
LlmChoices == {"raise", "same", "empty", "words", "punct"}

LlmResult(choice, t) ==
    [raises |-> choice = "raise",
     text |-> IF choice = "same" THEN t
              ELSE IF choice = "words" THEN <<"U+5934", "U+75BC">>
              ELSE IF choice = "punct" THEN <<"U+FF0C">>
              ELSE << >>]

LlmIdentity(t) == LlmResult("same", t)

\* lines 334-342: the use_llm of a message, from its parameter and the
\* configuration's voice_disable_llm
UseLlm(use_llm_param, voice_disable_llm) ==
    IF voice_disable_llm THEN TRUE
    ELSE IF use_llm_param # "None" THEN ParamBool(use_llm_param)
    ELSE ~voice_disable_llm

\* line 818: correct_text_only is called
LlmCalled(corrected_text, use_llm) == use_llm /\ corrected_text # << >>

\* lines 817-852: rule 16, the LLM pass
LlmPass(corrected_text, use_llm, llm) ==
    IF use_llm /\ corrected_text # << >>
    THEN IF ~llm.raises /\ llm.text # << >> /\ llm.text # corrected_text
         THEN llm.text
         ELSE corrected_text
    ELSE corrected_text

FailureReply(message) == [success |-> FALSE, text |-> << >>, message |-> message]

\* lines 635-874: the result frame for the value finalize() returned; the
\* messages are 抱歉，请再说一遍！ and 非认证注册声音，拒绝访问。
ResultReply(final_text, use_llm, llm) ==
    IF final_text.tag = "__SV_VERIFICATION_FAILED__" THEN FailureReply("sorry, say it again")
    ELSE IF final_text.tag = "__SV_NOT_ACTIVATED__" THEN FailureReply("not the enrolled voice, access denied")
    ELSE IF final_text.tag = "__ASR_RESULT_EMPTY__" THEN FailureReply("sorry, say it again")
    ELSE IF final_text.text # << >>
    THEN [success |-> TRUE,
          text |-> LlmPass(HardCorrect(final_text.text), use_llm, llm),
          message |-> "none"]
    ELSE FailureReply("sorry, say it again")

\* a text the recogniser produced, drawn from the input set
InitCorrector ==
    /\ InitTTS /\ InitSession /\ fin = FinAtRest /\ loop = LoopAtRest /\ seg = SegAtRest
    /\ wav = WavAtRest
    /\ \E t \in Texts, d \in BOOLEAN :
          txt = [stage |-> "recognised", raw |-> t, final |-> NoOutcome,
                 reply |-> NoReply2, text |-> << >>, prev |-> << >>, applied |-> 0,
                 voice_disable_llm |-> d, llm_called |-> FALSE]

\* the end of finalize() on the recognised text
FinalizeTail ==
    /\ txt.stage = "recognised"
    /\ LET o == FinalFilter(Outcome("text", txt.raw, 0))
       IN  txt' = [txt EXCEPT !.stage = "filtered", !.final = o,
                              !.text = o.text, !.prev = o.text]
    /\ UNCHANGED <<ttsVars, sessVars, fin, loop, seg, wav>>

\* the handler sends the result frame
SendResult(use_llm_param, choice) ==
    /\ txt.stage = "filtered"
    /\ txt.final.tag # "text" => (use_llm_param = "None" /\ choice = "same")
    /\ LET use_llm == UseLlm(use_llm_param, txt.voice_disable_llm)
           corrected_text == HardCorrect(txt.final.text)
       IN  /\ ~LlmCalled(corrected_text, use_llm) => choice = "same"
           /\ txt' = [txt EXCEPT !.stage = "replied",
                                 !.reply = ResultReply(txt.final, use_llm,
                                              LlmResult(choice, corrected_text)),
                                 !.llm_called = /\ txt.final.tag = "text"
                                                /\ LlmCalled(corrected_text, use_llm)]
    /\ UNCHANGED <<ttsVars, sessVars, fin, loop, seg, wav>>

\* the corrector with the LLM as identity, applied to a returned text and
\* then to its own output
Correct ==
    /\ txt.stage = "filtered"
    /\ txt.final.tag = "text"
    /\ txt.applied < MaxApplications
    /\ txt' = [txt EXCEPT !.prev = txt.text,
                          !.text = LlmPass(HardCorrect(txt.text), TRUE,
                                           LlmIdentity(HardCorrect(txt.text))),
                          !.applied = @ + 1]
    /\ UNCHANGED <<ttsVars, sessVars, fin, loop, seg, wav>>

NextCorrector ==
    \/ FinalizeTail
    \/ \E use_llm_param \in Params, choice \in LlmChoices :
           SendResult(use_llm_param, choice)
    \/ Correct

SpecCorrector == InitCorrector /\ [][NextCorrector]_vars

\* ======================================================================
\* Part IV: the event loop of the voice service
\*
\* Every websocket connection is a coroutine speech_recognition_websocket()
\* on the one event loop of the process.  loop.running is the connection
\* whose coroutine holds the thread (0 = the loop is free to pick a ready
\* coroutine); a coroutine gives the thread back only at an await that
\* suspends: receive_text() and send_json().  finalize() is declared async
\* but calls the speaker separation pipeline, the speaker verification
\* pipeline (through the await of a coroutine that never suspends) and the
\* LLM client as plain function calls.
FinalizeStages == {"separation", "verification", "llm"}

\* a client writes a message; it waits in the connection's socket
Arrive(i) ==
    /\ loop.inbox[i] < MaxInbox
    /\ loop' = [loop EXCEPT !.inbox[i] = @ + 1]
    /\ UNCHANGED <<ttsVars, sessVars, fin, txt, seg, wav>>

\* voice.py 193-195: the coroutine of connection i, suspended in
\* receive_text(), can be resumed with a message
CanResume(i) ==
    /\ loop.running = 0
    /\ loop.pos[i] = "receive"
    /\ loop.inbox[i] > 0

\* voice.py 195-633: one message is taken and handled up to the next
\* suspension: back in receive_text(), or, when process_chunk asks for the
\* final recognition, in the send_json of the "finalizing" frame
HandleMessage(i, should_finalize) ==
    /\ CanResume(i)
    /\ loop' = [loop EXCEPT !.inbox[i] = @ - 1,
                            !.pos[i] = IF should_finalize THEN "finalizing"
                                       ELSE "receive"]
    /\ UNCHANGED <<ttsVars, sessVars, fin, txt, seg, wav>>

\* voice.py 628-633: the send_json returns and finalize() is entered
EnterFinalize(i) ==
    /\ loop.running = 0
    /\ loop.pos[i] = "finalizing"
    /\ loop' = [loop EXCEPT !.running = i, !.pos[i] = "separation"]
    /\ UNCHANGED <<ttsVars, sessVars, fin, txt, seg, wav>>

\* voice_interface.py 2030-2053: speaker_diarization_pipeline(...) is called
\* on the event loop's thread; verification follows when the session uses it,
\* the LLM correction when it is on and there is a text
Separation(i, next) ==
    /\ loop.running = i
    /\ loop.pos[i] = "separation"
    /\ next \in {"verification", "llm", "reply"}
    /\ loop' = [loop EXCEPT !.pos[i] = next]
    /\ UNCHANGED <<ttsVars, sessVars, fin, txt, seg, wav>>

\* voice_interface.py 2206, 2424-2447: sv_pipeline([...]) is called on the
\* event loop's thread
Verification(i, next) ==
    /\ loop.running = i
    /\ loop.pos[i] = "verification"
    /\ next \in {"llm", "reply"}
    /\ loop' = [loop EXCEPT !.pos[i] = next]
    /\ UNCHANGED <<ttsVars, sessVars, fin, txt, seg, wav>>

\* voice.py 818-851: correct_text_only(...) is called on the event loop's
\* thread
Llm(i) ==
    /\ loop.running = i
    /\ loop.pos[i] = "llm"
    /\ loop' = [loop EXCEPT !.pos[i] = "reply"]
    /\ UNCHANGED <<ttsVars, sessVars, fin, txt, seg, wav>>

\* voice.py 854-879: the result frame is sent and the coroutine goes back to
\* receive_text()
Reply(i) ==
    /\ loop.running = i
    /\ loop.pos[i] = "reply"
    /\ loop' = [loop EXCEPT !.running = 0, !.pos[i] = "receive"]
    /\ UNCHANGED <<ttsVars, sessVars, fin, txt, seg, wav>>

NextLoop ==
    \/ \E i \in Sessions : Arrive(i)
    \/ \E i \in Sessions, should_finalize \in BOOLEAN :
           HandleMessage(i, should_finalize)
    \/ \E i \in Sessions : EnterFinalize(i)
    \/ \E i \in Sessions, next \in {"verification", "llm", "reply"} :
           Separation(i, next)
    \/ \E i \in Sessions, next \in {"llm", "reply"} : Verification(i, next)
    \/ \E i \in Sessions : Llm(i)
    \/ \E i \in Sessions : Reply(i)

SpecLoop == Init /\ [][NextLoop]_vars

\* ======================================================================
\* Part V: pure functions of the TTS service
\*
\* A text is a sequence of characters; ASCII characters are written as they
\* are, the others by code point.
\* ------------------------------------------------------------------ bounds
MaxPieces == 4            \* most pieces an input text is put together from
LongRun == 22             \* length of the run of plain characters among the pieces
ShortRun == 6             \* length of the shorter run of plain characters

\* ------------------------------------------------------- program constants
\* TTS_SEG_TARGET, TTS_SEG_FIRST, TTS_SEG_HARD_MAX (defaults)
seg_target == 18
seg_first_target == 14
seg_hard_max == 22

LF == "U+000A"
Comma == "U+FF0C"                                        \* ，
\* what str.strip() removes and \s matches
\* space, tab, newline, carriage return
Whitespace == {" ", "U+0009", LF, "U+000D"}
Digits == {"0", "1", "2", "3", "4", "5", "6", "7", "8", "9"}
\* [。！？；\n]
StrongBoundary == {"U+3002", "U+FF01", "U+FF1F", "U+FF1B", LF}
\* [，、：]
WeakBoundary == {Comma, "U+3001", "U+FF1A"}
\* [\.、:：\)]
NumberingMarks == {".", "U+3001", ":", "U+FF1A", ")"}
\* the complement of [^\n，。！？；\s]
NoJoin == {LF, Comma, "U+3002", "U+FF01", "U+FF1F", "U+FF1B"} \cup Whitespace
\* "。！？；，、：\n": a segment that ends in one of these gets no comma
EndsWithPunctuation == StrongBoundary \cup WeakBoundary

\* length of the longest prefix of t made of characters of S
SpanLen(t, S) ==
    LET stops == {i \in 1..Len(t) : t[i] \notin S}
    IN  IF stops = {} THEN Len(t)
        ELSE (CHOOSE i \in stops : \A j \in stops : i <= j) - 1

\* length of the longest suffix of t made of characters of S
RSpanLen(t, S) ==
    LET stops == {i \in 1..Len(t) : t[i] \notin S}
    IN  IF stops = {} THEN Len(t)
        ELSE Len(t) - (CHOOSE i \in stops : \A j \in stops : j <= i)

\* length of the longest prefix of t without a character of S
Until(t, S) ==
    LET hits == {i \in 1..Len(t) : t[i] \in S}
    IN  IF hits = {} THEN Len(t)
        ELSE (CHOOSE i \in hits : \A j \in hits : i <= j) - 1

\* t[n:]
Drop(t, n) == SubSeq(t, n + 1, Len(t))

\* str.strip()
strip(t) ==
    LET a == Drop(t, SpanLen(t, Whitespace))
    IN  SubSeq(a, 1, Len(a) - RSpanLen(a, Whitespace))

\* the largest k <= n with t[k] a newline, 0 if there is none
LastNewline(t, n) ==
    LET ks == {k \in 1..n : t[k] = LF}
    IN  IF ks = {} THEN 0 ELSE CHOOSE k \in ks : \A m \in ks : m <= k

RECURSIVE UnifyNewlines(_)
\* t.replace("\r\n", "\n").replace("\r", "\n"): every carriage return, with
\* the newline that follows it if there is one, becomes a newline
UnifyNewlines(t) ==
    LET k == Until(t, {"U+000D"})
    IN  IF k = Len(t) THEN t
        ELSE SubSeq(t, 1, k) \o <<LF>>
               \o UnifyNewlines(Drop(t, IF k + 1 < Len(t) /\ t[k + 2] = LF
                                        THEN k + 2 ELSE k + 1))

RECURSIVE CollapseBlanks(_)
\* re.sub(r"[ \t]+", " ", t)
CollapseBlanks(t) ==
    LET k == Until(t, {" ", "U+0009"})
    IN  IF k = Len(t) THEN t
        ELSE SubSeq(t, 1, k) \o <<" ">>
               \o CollapseBlanks(Drop(t, k + SpanLen(Drop(t, k), {" ", "U+0009"})))

RECURSIVE BlankLinesToComma(_)
\* re.sub(r"\n\s*\n+", "，", t): a newline and the white space after it, up
\* to the last newline of that white space
BlankLinesToComma(t) ==
    LET k == Until(t, {LF})
        rest == Drop(t, k + 1)
        j == LastNewline(rest, SpanLen(rest, Whitespace))
    IN  IF k = Len(t) THEN t
        ELSE IF j > 0
        THEN SubSeq(t, 1, k) \o <<Comma>> \o BlankLinesToComma(Drop(rest, j))
        ELSE SubSeq(t, 1, k + 1) \o BlankLinesToComma(rest)

RECURSIVE NewlineToComma(_)
\* re.sub(r"([^\n，。！？；\s])\s*\n\s*([^\n，。！？；\s])", r"\1，\2", t):
\* a run of white space a..b that holds a newline, between two characters
\* outside the class; the second character is consumed by the match and
\* does not begin another
NewlineToComma(t) ==
    LET p == Until(t, {LF}) + 1
        a == p - RSpanLen(SubSeq(t, 1, p - 1), Whitespace)
        b == p + SpanLen(Drop(t, p), Whitespace)
    IN  IF p > Len(t) THEN t
        ELSE IF /\ a > 1
                /\ b < Len(t)
                /\ t[a - 1] \notin NoJoin
                /\ t[b + 1] \notin NoJoin
        THEN SubSeq(t, 1, a - 1) \o <<Comma, t[b + 1]>> \o NewlineToComma(Drop(t, b + 1))
        ELSE SubSeq(t, 1, b) \o NewlineToComma(Drop(t, b))

\* length of the match of \s*\d{1,2}\s*[\.、:：\)]\s* at the head of t, 0 if
\* it does not match (one or two digits, no third)
NumberingLen(t) ==
    LET w1 == SpanLen(t, Whitespace)
        d == SpanLen(Drop(t, w1), Digits)
        w2 == SpanLen(Drop(t, w1 + d), Whitespace)
        m == w1 + d + w2 + 1
    IN  IF d \in {1, 2} /\ Len(t) >= m /\ t[m] \in NumberingMarks
        THEN m + SpanLen(Drop(t, m), Whitespace)
        ELSE 0

RECURSIVE StripNumbering(_, _)
\* re.sub(r"(^|\n)\s*\d{1,2}\s*[\.、:：\)]\s*", r"\1", t); without
\* re.MULTILINE ^ is the start of the text only
StripNumbering(t, at_start) ==
    LET k == Until(t, {LF})
        rest == Drop(t, k + 1)
    IN  IF at_start /\ NumberingLen(t) > 0
        THEN StripNumbering(Drop(t, NumberingLen(t)), FALSE)
        ELSE IF k = Len(t) THEN t
        ELSE SubSeq(t, 1, k + 1)
               \o StripNumbering(Drop(rest, NumberingLen(rest)), FALSE)

RECURSIVE CollapseCommas(_)
\* re.sub(r"，+", "，", t)
CollapseCommas(t) ==
    LET k == Until(t, {Comma})
    IN  IF k = Len(t) THEN t
        ELSE SubSeq(t, 1, k) \o <<Comma>>
               \o CollapseCommas(Drop(t, k + SpanLen(Drop(t, k), {Comma})))

\* re.sub(r"^，+|，+$", "", t); $ is the end of the text or the place before
\* a newline that ends it
TrimCommas(t) ==
    LET a == Drop(t, SpanLen(t, {Comma}))
        n == Len(a)
    IN  IF n > 0 /\ a[n] = LF
        THEN LET body == SubSeq(a, 1, n - 1)
             IN  SubSeq(body, 1, Len(body) - RSpanLen(body, {Comma})) \o <<LF>>
        ELSE SubSeq(a, 1, n - RSpanLen(a, {Comma}))

\* _normalize_text
normalize_text(text) ==
    LET t0 == strip(text)
        t1 == UnifyNewlines(t0)
        t2 == CollapseBlanks(t1)
        t3 == BlankLinesToComma(t2)
        t4 == NewlineToComma(t3)
        t5 == StripNumbering(t4, TRUE)
        t6 == CollapseCommas(t5)
        t7 == TrimCommas(t6)
    IN  IF t0 = << >> THEN << >> ELSE strip(t7)

RECURSIVE SplitAfter(_, _)
\* re.split(r"(?<=[S])", t): the text is cut after every character of S
SplitAfter(t, S) ==
    LET k == Until(t, S)
    IN  IF k >= Len(t) THEN <<t>>
        ELSE <<SubSeq(t, 1, k + 1)>> \o SplitAfter(Drop(t, k + 1), S)

\* [p.strip() for p in parts if p and p.strip()]
StrippedParts(parts) ==
    SelectSeq([i \in 1..Len(parts) |-> strip(parts[i])], LAMBDA p : p # << >>)

\* re.match(r"^\d{1,2}\.\s+", s)
is_list(s) ==
    LET d == SpanLen(s, Digits)
    IN  /\ d \in {1, 2}
        /\ Len(s) >= d + 2
        /\ s[d + 1] = "."
        /\ s[d + 2] \in Whitespace

\* flush() of _merge_list_items and emit() of _split_text_for_tts: the
\* stripped text is appended unless it is empty
Emit(out, s) == IF strip(s) # << >> THEN Append(out, strip(s)) ELSE out

RECURSIVE MergeFrom(_, _, _)
\* the loop of _merge_list_items and its final flush()
MergeFrom(parts, out, buf) ==
    IF parts = << >> THEN Emit(out, buf)
    ELSE LET s == strip(Head(parts))
         IN  IF s = << >> THEN MergeFrom(Tail(parts), out, buf)
             ELSE IF is_list(s)
             THEN MergeFrom(Tail(parts), Append(Emit(out, buf), s), << >>)
             ELSE MergeFrom(Tail(parts), out,
                            IF buf = << >> THEN s ELSE buf \o <<" ">> \o s)

\* _merge_list_items
merge_list_items(parts) == MergeFrom(parts, << >>, << >>)

buf_limit(is_first, target, first_target) ==
    IF is_first THEN first_target ELSE target

RECURSIVE HardCut_Mut(_, _, _)
\* the hard cut as it would be if it skipped the character after each piece
HardCut_Mut(out, s, hard_max) ==
    IF s = << >> THEN out
    ELSE HardCut_Mut(Emit(out, SubSeq(s, 1, Min(hard_max, Len(s)))),
                     Drop(s, hard_max + 1), hard_max)

RECURSIVE HardCut(_, _, _)
\* for i in range(0, len(s), hard_max): emit(s[i:i + hard_max])
HardCut(out, s, hard_max) ==
    IF s = << >> THEN out
    ELSE HardCut(Emit(out, SubSeq(s, 1, Min(hard_max, Len(s)))),
                 Drop(s, hard_max), hard_max)

RECURSIVE WeakLoop(_, _, _, _, _, _)
\* the loop over the pieces cut at weak punctuation, and the emit of what
\* is left in tmp
WeakLoop(subs, out, tmp, target, first_target, hard_max) ==
    IF subs = << >> THEN (IF tmp # << >> THEN Emit(out, tmp) ELSE out)
    ELSE LET s == Head(subs)
             limit2 == buf_limit(out = << >> /\ tmp = << >>, target, first_target)
         IN  IF tmp # << >> /\ Len(tmp) + Len(s) <= limit2
             THEN WeakLoop(Tail(subs), out, tmp \o s, target, first_target, hard_max)
             ELSE IF tmp = << >> /\ Len(s) <= limit2
             THEN WeakLoop(Tail(subs), out, s, target, first_target, hard_max)
             ELSE LET out1 == IF tmp # << >> THEN Emit(out, tmp) ELSE out
                  IN  WeakLoop(Tail(subs),
                               IF Len(s) <= hard_max THEN Emit(out1, s)
                               ELSE HardCut(out1, s, hard_max),
                               << >>, target, first_target, hard_max)

RECURSIVE StrongLoop(_, _, _, _, _, _)
\* the loop over strong_parts, and the emit of what is left in buf
StrongLoop(parts, out, buf, target, first_target, hard_max) ==
    IF parts = << >> THEN (IF buf # << >> THEN Emit(out, buf) ELSE out)
    ELSE LET p == strip(Head(parts))
             limit == buf_limit(out = << >> /\ buf = << >>, target, first_target)
         IN  IF p = << >>
             THEN StrongLoop(Tail(parts), out, buf, target, first_target, hard_max)
             ELSE IF buf # << >> /\ Len(buf) + Len(p) <= limit
             THEN StrongLoop(Tail(parts), out, buf \o p, target, first_target, hard_max)
             ELSE IF buf = << >> /\ Len(p) <= limit
             THEN StrongLoop(Tail(parts), out, p, target, first_target, hard_max)
             ELSE LET out1 == IF buf # << >> THEN Emit(out, buf) ELSE out
                  IN  StrongLoop(Tail(parts),
                                 IF Len(p) > hard_max
                                 THEN WeakLoop(StrippedParts(SplitAfter(p, WeakBoundary)),
                                               out1, << >>, target, first_target, hard_max)
                                 ELSE Emit(out1, p),
                                 << >>, target, first_target, hard_max)

\* every segment but the last gets "，" when it does not end in punctuation
AppendCommas(out) ==
    [i \in 1..Len(out) |->
        IF i < Len(out) /\ out[i][Len(out[i])] \notin EndsWithPunctuation
        THEN Append(out[i], Comma)
        ELSE out[i]]

\* _split_text_for_tts
split_text_for_tts(text, target, first_target, hard_max) ==
    LET t == normalize_text(text)
        strong_parts == merge_list_items(
                            StrippedParts(SplitAfter(t, StrongBoundary)))
    IN  IF t = << >> THEN << >>
        ELSE AppendCommas(StrongLoop(strong_parts, << >>, << >>,
                                     target, first_target, hard_max))

RECURSIVE Concat(_)
\* the pieces of a text put one after the other
Concat(ps) == IF ps = << >> THEN << >> ELSE Head(ps) \o Concat(Tail(ps))

\* the input texts: up to MaxPieces pieces, each a single character, a list
\* number, a run of plain characters as long as the hard cap, or a shorter
\* run of which two fit in the general target and not in the first one
SegTexts ==
    LET Pieces == {<<"a">>, <<" ">>, <<LF>>, <<Comma>>, <<"U+3002">>,
                   <<"1", ".", " ">>, [i \in 1..LongRun |-> "a"],
                   [i \in 1..ShortRun |-> "a"]}
    IN  {Concat(ps) : ps \in UNION {[1..n -> Pieces] : n \in 0..MaxPieces}}

InitSegmenter ==
    /\ InitTTS /\ InitSession
    /\ fin = FinAtRest /\ txt = TxtAtRest /\ loop = LoopAtRest /\ wav = WavAtRest
    /\ \E t \in SegTexts : seg = [SegAtRest EXCEPT !.stage = "given", !.text = t]

\* _process_tts_task_sync, lines 535-540: the text of the job is split with
\* the configured targets
Split ==
    /\ seg.stage = "given"
    /\ seg' = [seg EXCEPT !.stage = "split",
                          !.out = split_text_for_tts(seg.text, seg_target,
                                                     seg_first_target, seg_hard_max)]
    /\ UNCHANGED <<ttsVars, sessVars, fin, txt, loop, wav>>

\* a segment that was returned is given to the segmenter as a text of its own
SplitAgain(k) ==
    /\ seg.stage = "split"
    /\ k \in 1..Len(seg.out)
    /\ seg' = [seg EXCEPT !.stage = "resplit",
                          !.k = k,
                          !.again = split_text_for_tts(seg.out[k], seg_target,
                                                       seg_first_target, seg_hard_max)]
    /\ UNCHANGED <<ttsVars, sessVars, fin, txt, loop, wav>>

NextSegmenter ==
    \/ Split
    \/ \E k \in DOMAIN seg.out : SplitAgain(k)

SpecSegmenter == InitSegmenter /\ [][NextSegmenter]_vars

\* ------------------------------------------------------ WAV concatenation
\* A PCM byte string is modelled by its length in bytes: the concatenation
\* cuts, joins and mixes byte strings, and the mixing keeps their length.
\* ------------------------------------------------------------------ bounds
MaxWavs == 3              \* most segment WAVs in one list

\* ------------------------------------------------------- program constants
\* TTS_CROSSFADE_MS, TTS_PAUSE_SOFT_MS, TTS_PAUSE_HARD_MS, TTS_SAMPLING_RATE
crossfade_ms == 60
pause_soft_ms == 120
pause_hard_ms == 200
sampling_rate == 16000
\* the pipeline's audio has one channel
Channels == 1

\* int(sr * ms / 1000.0)
MsToFrames(sr, ms) == (sr * ms) \div 1000

\* _make_silence_frames
make_silence_frames(sr, nch, sw, ms) == MsToFrames(sr, ms) * (sw * nch)

\* the crossfade as it would be without the check of the two lengths
crossfade_frames_Mut(a, b, sw, nch, fade_ms, sr) ==
    IF fade_ms <= 0 \/ sw # 2 THEN [a |-> a, b |-> b]
    ELSE LET fade_frames == MsToFrames(sr, fade_ms)
             fade_bytes == fade_frames * (sw * nch)
         IN  IF fade_frames <= 0 THEN [a |-> a, b |-> b]
             ELSE [a |-> (a - fade_bytes) + fade_bytes,
                   b |-> IF b < fade_bytes THEN 0 ELSE b - fade_bytes]

\* _crossfade_frames: the lengths of the two byte strings it returns
crossfade_frames(a, b, sw, nch, fade_ms, sr) ==
    IF fade_ms <= 0 \/ sw # 2 THEN [a |-> a, b |-> b]
    ELSE LET fade_frames == MsToFrames(sr, fade_ms)
             fade_bytes == fade_frames * (sw * nch)
         IN  IF fade_frames <= 0 THEN [a |-> a, b |-> b]
             ELSE IF a < fade_bytes \/ b < fade_bytes THEN [a |-> a, b |-> b]
             ELSE [a |-> (a - fade_bytes) + fade_bytes, b |-> b - fade_bytes]

\* _process_tts_task_sync, lines 664-671: the pause after a segment
PauseAfter(last) ==
    IF last \in {"U+3002", "U+FF01", "U+FF1F", "U+FF1B", LF}
    THEN pause_hard_ms
    ELSE pause_soft_ms

RECURSIVE ConcatFrom(_, _, _, _, _)
\* the loop of _concat_wavs_smooth from segment i on; out_pcm is the length
\* of what has been put together so far
ConcatFrom(pcms, pauses_ms, i, out_pcm, sw0) ==
    IF i > Len(pcms) THEN out_pcm
    ELSE LET pause == IF i - 1 <= Len(pauses_ms) THEN pauses_ms[i - 1] ELSE 0
             a == IF pause > 0
                  THEN out_pcm + make_silence_frames(sampling_rate, Channels, sw0, pause)
                  ELSE out_pcm
             r == crossfade_frames(a, pcms[i], sw0, Channels, crossfade_ms, sampling_rate)
         IN  ConcatFrom(pcms, pauses_ms, i + 1, r.a + r.b, sw0)

\* _concat_wavs_smooth: the length of the PCM data of the WAV it returns
concat_wavs_smooth(pcms, pauses_ms, sw0) ==
    IF pcms = << >> THEN 0 ELSE ConcatFrom(pcms, pauses_ms, 2, pcms[1], sw0)

\* wave.getnframes() of a WAV whose PCM data is n bytes long
NFrames(n, sw) == n \div (sw * Channels)

\* the input lists: 1..MaxWavs segment WAVs, each 8-bit or 16-bit, one frame
\* short of the crossfade, exactly the crossfade or one second long, its
\* segment ending in 。 ， or a plain character
WavLists ==
    LET FrameChoices == {MsToFrames(sampling_rate, crossfade_ms) - 1,
                         MsToFrames(sampling_rate, crossfade_ms),
                         sampling_rate}
        LastChars == {"U+3002", Comma, "a"}
    IN  UNION {[1..n -> [frames : FrameChoices, last : LastChars, sw : {1, 2}]] :
                  n \in 1..MaxWavs}

\* the segment WAVs of one job as the pipeline makes them: one sample width
InitConcat ==
    /\ InitTTS /\ InitSession
    /\ fin = FinAtRest /\ txt = TxtAtRest /\ loop = LoopAtRest /\ seg = SegAtRest
    /\ \E segs \in WavLists :
          /\ \A i \in DOMAIN segs : segs[i].sw = segs[1].sw
          /\ wav = [stage |-> "given", sw |-> segs[1].sw, segs |-> segs, out |-> 0]

\* any list of segment WAVs, a later one possibly of another sample width
\* than the first; sr0, nch0, sw0 are read from the first (line 475)
InitConcatMixed ==
    /\ InitTTS /\ InitSession
    /\ fin = FinAtRest /\ txt = TxtAtRest /\ loop = LoopAtRest /\ seg = SegAtRest
    /\ \E segs \in WavLists :
          wav = [stage |-> "given", sw |-> segs[1].sw, segs |-> segs, out |-> 0]

\* _process_tts_task_sync, lines 664-671 and 882-887: the pauses are chosen
\* from the segments' last characters and the WAVs are put together
ConcatWavs ==
    /\ wav.stage = "given"
    /\ LET n == Len(wav.segs)
           pcms == [i \in 1..n |-> wav.segs[i].frames * (wav.segs[i].sw * Channels)]
           pauses_ms == [i \in 1..(n - 1) |-> PauseAfter(wav.segs[i].last)]
       IN  wav' = [wav EXCEPT !.stage = "done",
                              !.out = concat_wavs_smooth(pcms, pauses_ms, wav.sw)]
    /\ UNCHANGED <<ttsVars, sessVars, fin, txt, loop, seg>>

NextConcat == ConcatWavs

SpecConcat == InitConcat /\ [][NextConcat]_vars

SpecConcatMixed == InitConcatMixed /\ [][NextConcat]_vars

\* ================================================================ claims
\* C1: once a job is Cancelled it stays Cancelled while it is in the table;
\* the worker never moves it to Processing or Completed nor stores a result.
C1_CancelIsFinal ==
    [][\A j \in JobIds :
          (Present(j) /\ StatusOf(j) = "cancelled" /\ j \in DOMAIN jobs')
              => /\ jobs'[j].status = "cancelled"
                 /\ jobs'[j].result = jobs[j].result]_vars

\* C2: a job whose status is Completed carries its result, and a poll that
\* saw Completed obtains the audio.
C2_CompletedHasResult ==
    /\ \A j \in DOMAIN jobs : jobs[j].status = "completed" => jobs[j].result = "audio"
    /\ (reply.op = "result" /\ reply.status \in {"completed", "exception"})
           => reply.body = "audio"

\* C3: a job that has reached Completed is never Cancelled afterwards, and
\* cancel on a Completed job answers already_completed without changing it.
C3_NoCancelAfterCompleted ==
    [][/\ \A j \in JobIds :
             (Present(j) /\ StatusOf(j) = "completed" /\ j \in DOMAIN jobs')
                 => jobs'[j].status # "cancelled"
       /\ (reply'.op = "cancel" /\ reply'.status = "already_completed")
             => jobs' = jobs]_vars

C5_JobsTerminate ==
    \A j \in JobIds :
        (Present(j) /\ StatusOf(j) \in {"pending", "processing"})
            ~> (~Present(j) \/ StatusOf(j) \in Terminal)

\* C5 witness: a submitted job went through its worker and is Completed with
\* its audio
C5_Witness_Finished ==
    \E j \in JobIds : pc[j] = "done" /\ Present(j) /\ StatusOf(j) = "completed"
                      /\ jobs[j].result = "audio"

\* C6: when the inference of a segment failed and the job is not cancelled,
\* the worker leaves the job in Error with the failing segment's exception text.
C6_SegmentFailureIsReported ==
    \A j \in JobIds :
        (pc[j] = "ret" /\ segFailed[j] /\ Present(j) /\ StatusOf(j) # "cancelled")
            => /\ StatusOf(j) = "error"
               /\ jobs[j].error = "segment exception"

\* C7: at most one thread is inside the backend initialisation.
C7_SingleFlightLoad == Cardinality(Loading) <= 1

\* C8: in every reachable session state, mode = ASR_ACTIVE implies that the
\* session is activated or that wake-up is switched off.
C8_AsrActiveIsActivatedOrNoWake ==
    session.mode = "ASR_ACTIVE" => (session.is_activated \/ ~session.use_wake)

\* C8 witness: a session with wake-up on was woken, went through enrollment
\* and start_asr, and is in ASR_ACTIVE, activated
C8_Witness_ActivatedAsr ==
    /\ session.mode = "ASR_ACTIVE"
    /\ session.use_wake
    /\ session.is_activated

C10_WakeClearsAsrState ==
    \A uw \in Params, usv \in Params, len \in ChunkLens, kws \in KwsOutcomes :
        LET s0 == BeforeAudio(session, uw, usv)
            r == WakeupBranch(s0, len, kws)
        IN  (s0.mode = "WAITING_FOR_WAKEUP" /\ r.ret)
              => /\ r.s.mode = "WAITING_FOR_ENROLLMENT"
                 /\ r.s.is_activated
                 /\ r.sent = <<"wakeup:activated">>
                 /\ r.s.audio_buffer = 0
                 /\ r.s.pre_speech_buffer = 0
                 /\ ~r.s.has_detected_speech
                 /\ r.s.enroll_audio_buffer = s0.enroll_audio_buffer

\* C11: the session goes from WAITING_FOR_ENROLLMENT to
\* WAITING_FOR_ENROLLMENT_CONFIRM, and enrollment_completed is sent, only on
\* a chunk at which speech has been seen, at least min_enroll_seconds have
\* passed since the first speech chunk and at least 2.0 s since the last
\* one (so the chunk itself is silence); the session is then enrolled.
C11_AcceptNeedsBothConditions ==
    /\ [](\A uw \in Params, usv \in Params, len \in ChunkLens,
             is_speech \in BOOLEAN, save_ok \in BOOLEAN, models_ok \in BOOLEAN :
             LET s0 == BeforeAudio(session, uw, usv)
                 r == EnrollmentBranch(s0, len, is_speech, save_ok, models_ok)
             IN  (s0.mode = "WAITING_FOR_ENROLLMENT"
                    /\ (r.sent # << >> \/ r.s.mode # s0.mode
                          \/ r.s.is_enrolled # s0.is_enrolled))
                   => /\ r.sent = <<"enrollment_completed">>
                      /\ r.s.mode = "WAITING_FOR_ENROLLMENT_CONFIRM"
                      /\ r.s.is_enrolled /\ ~s0.is_enrolled
                      /\ ~is_speech
                      /\ s0.enroll_has_detected_speech
                      /\ s0.enroll_first_speech_time >= min_enroll_seconds
                      /\ s0.enroll_last_voice_time >= EnrollSilenceSeconds)
    /\ [][(session.mode # "WAITING_FOR_ENROLLMENT_CONFIRM"
              /\ session'.mode = "WAITING_FOR_ENROLLMENT_CONFIRM")
            => /\ session.mode = "WAITING_FOR_ENROLLMENT"
               /\ session.enroll_has_detected_speech
               /\ session.enroll_first_speech_time # None
               /\ session.enroll_first_speech_time >= min_enroll_seconds
               /\ session.enroll_last_voice_time # None
               /\ session.enroll_last_voice_time >= EnrollSilenceSeconds
               /\ session'.is_enrolled]_vars

\* C11 witness: an enrollment was accepted (the session waits for the
\* client's confirmation, enrolled)
C11_Witness_Accepted ==
    /\ session.mode = "WAITING_FOR_ENROLLMENT_CONFIRM"
    /\ session.is_enrolled
    /\ session.enroll_audio_path = "path"

\* C12: whenever a chunk is handled in WAITING_FOR_ENROLLMENT at which both
\* accept conditions hold (speech seen, min_enroll_seconds since the first
\* speech chunk, 2.0 s of trailing silence), and the models and the disk
\* work, that chunk persists the sample, sets is_enrolled, clears the
\* enrollment buffer, moves to WAITING_FOR_ENROLLMENT_CONFIRM and sends
\* enrollment_completed.
C12_AcceptAlwaysCompletes ==
    \A uw \in Params, usv \in Params, len \in ChunkLens :
        LET s0 == BeforeAudio(session, uw, usv)
            r == EnrollmentBranch(s0, len, FALSE, TRUE, TRUE)
        IN  (/\ s0.mode = "WAITING_FOR_ENROLLMENT"
             /\ s0.enroll_has_detected_speech
             /\ s0.enroll_first_speech_time # None
             /\ s0.enroll_first_speech_time >= min_enroll_seconds
             /\ s0.enroll_last_voice_time # None
             /\ s0.enroll_last_voice_time >= EnrollSilenceSeconds)
              => /\ r.s.enroll_audio_path = "path"
                 /\ r.s.is_enrolled
                 /\ r.s.enroll_audio_buffer = 0
                 /\ r.s.mode = "WAITING_FOR_ENROLLMENT_CONFIRM"
                 /\ r.sent = <<"enrollment_completed">>

\* C13: start_asr takes effect only in WAITING_FOR_ENROLLMENT and
\* WAITING_FOR_ENROLLMENT_CONFIRM: there the mode becomes ASR_ACTIVE, the ASR
\* state is clear (ASR buffer and pre-speech buffer empty, no speech seen,
\* silence_chunk_count 0, silence timer 0, last-voice reference reset) and
\* asr_started is sent; in the other modes nothing changes and nothing is sent.
C13_StartAsrClearsAsrState ==
    LET r == HandleStartAsr(session)
    IN  IF session.mode \in {"WAITING_FOR_ENROLLMENT", "WAITING_FOR_ENROLLMENT_CONFIRM"}
        THEN /\ r.s.mode = "ASR_ACTIVE"
             /\ r.s.audio_buffer = 0
             /\ r.s.pre_speech_buffer = 0
             /\ ~r.s.has_detected_speech
             /\ r.s.silence_chunk_count = 0
             /\ r.s.silence_timer = 0
             /\ r.s.last_voice_time = 0
             /\ r.sent = <<"status:asr_started">>
        ELSE r.s = session /\ r.sent = << >>

\* C14 (as stated): is_enrolled goes from true to false only in the step of
\* an end_conversation or of a message with use_sv = false (or when the
\* connection ends), and from false to true only when an enrollment
\* completes.
C14_EnrolledResetOnlyByEndOrSvOff ==
    [][/\ (session.is_enrolled /\ ~session'.is_enrolled /\ connected')
            => \/ session' = HandleEndConversation(session).s
               \/ (session.use_speaker_verification
                     /\ ~session'.use_speaker_verification)
       /\ (~session.is_enrolled /\ session'.is_enrolled)
            => /\ session'.enroll_audio_path = "path"
               /\ session'.enroll_audio_buffer = 0
               /\ \/ (session.mode = "WAITING_FOR_ENROLLMENT"
                        /\ session'.mode = "WAITING_FOR_ENROLLMENT_CONFIRM")
                  \/ session'.mode = "ASR_ACTIVE"]_vars

\* C14 (amended): is_enrolled goes from true to false only in the step of an
\* end_conversation, of a cancel_enrollment or of a message with
\* use_sv = false (or when the connection ends), and from false to true only
\* when an enrollment completes.
C14_EnrolledResetOnlyByResetOrSvOff ==
    [][/\ (session.is_enrolled /\ ~session'.is_enrolled /\ connected')
            => \/ session' = HandleEndConversation(session).s
               \/ session' = HandleCancelEnrollment(session).s
               \/ (session.use_speaker_verification
                     /\ ~session'.use_speaker_verification)
       /\ (~session.is_enrolled /\ session'.is_enrolled)
            => /\ session'.enroll_audio_path = "path"
               /\ session'.enroll_audio_buffer = 0
               /\ \/ (session.mode = "WAITING_FOR_ENROLLMENT"
                        /\ session'.mode = "WAITING_FOR_ENROLLMENT_CONFIRM")
                  \/ session'.mode = "ASR_ACTIVE"]_vars

\* C14 witness: an enrollment completed and a use_sv = false message then
\* cleared it while the session waited for the client's confirmation
C14_Witness_SvOffAfterEnrollment ==
    /\ session.mode = "WAITING_FOR_ENROLLMENT_CONFIRM"
    /\ ~session.is_enrolled
    /\ ~session.use_speaker_verification

\* C15: in every reachable session state, and in every state between the two
\* assignments that record or clear an enrollment there, is_enrolled implies
\* that enroll_audio_path is set.
C15_EnrolledHasPath ==
    LET Coherent(s) == s.is_enrolled => s.enroll_audio_path # "None"
    IN  /\ Coherent(session)
        /\ ~session.is_enrolled =>
             \A i \in DOMAIN MarkEnrolledSteps(session) :
                 Coherent(MarkEnrolledSteps(session)[i])
        /\ \A i \in DOMAIN ClearEnrolledSteps(session) :
               Coherent(ClearEnrolledSteps(session)[i])
        /\ \A f \in {"True", "False"} :
               Coherent(ApplyFlags(session, "None", f))
        /\ Coherent(reset(session))

\* C15 witness: an enrolled, activated session recognising speech
C15_Witness_EnrolledInAsr ==
    /\ session.mode = "ASR_ACTIVE"
    /\ session.is_enrolled
    /\ session.is_activated
    /\ session.enroll_audio_path = "path"

\* C16: whenever an audio chunk in ASR_ACTIVE triggers finalize, the session
\* left behind by the handler (result frame sent, ASR state reset) has
\* silence_chunk_count = 0, has_detected_speech = FALSE and empty
\* pre_speech_buffer and audio_buffer, whatever finalize returned.
C16_FinalizeLeavesCleanAsrState ==
    \A uw \in Params, usv \in Params, len \in 1..MaxChunkLen,
       is_speech \in BOOLEAN, save_ok \in BOOLEAN, final_text \in AllFinalTexts :
        LET s0 == BeforeAudio(session, uw, usv)
            r  == AsrBranch(s0, len, is_speech, save_ok, final_text)
        IN  (s0.mode = "ASR_ACTIVE" /\ r.ret.should_finalize)
              => /\ Len(r.sent) = 2
                 /\ r.sent[2] \in {"result:success", "result:failure"}
                 /\ r.s.silence_chunk_count = 0
                 /\ ~r.s.has_detected_speech
                 /\ r.s.pre_speech_buffer = 0
                 /\ r.s.audio_buffer = 0
                 /\ r.s.mode = "ASR_ACTIVE"

\* C16 witness: a session holding an utterance and counted silence, one
\* silent chunk away from finalize
C16_Witness_AboutToFinalize ==
    /\ session.mode = "ASR_ACTIVE"
    /\ session.audio_buffer > 0
    /\ session.silence_chunk_count > 0
    /\ session.has_detected_speech
    /\ AsrBranch(session, 1, FALSE, TRUE, "text").ret.should_finalize

C18_NotActivatedIsRefused ==
    (fin.stage = "returned" /\ fin.use_speaker_verification
        /\ fin.is_enrolled /\ ~fin.is_activated)
    => /\ fin.out = Outcome("__SV_NOT_ACTIVATED__", << >>, 0)
       /\ \A use_llm \in BOOLEAN, choice \in LlmChoices :
             ResultReply(fin.out, use_llm, LlmResult(choice, << >>))
                 = FailureReply("not the enrolled voice, access denied")

\* C19: a result frame with success = true never carries a text that is
\* empty once punctuation and interjection characters are removed.
C19_SuccessTextNotEmpty ==
    (txt.stage = "replied" /\ txt.reply.success)
    => SelectSeq(txt.reply.text,
                 LAMBDA c : c \notin PunctClass \cup interjection_pattern) # << >>

\* C20: the deterministic corrector (LLM as identity) applied to its own
\* output returns that output unchanged.
C20_CorrectorIdempotent ==
    txt.applied = MaxApplications => txt.text = txt.prev

\* C21: when voice_disable_llm is on, no result sent on the streaming channel
\* has had the LLM corrector called, whatever use_llm the message carried,
\* and a successful result carries the deterministic correction of the text.
C21_DisabledLlmNeverCalled ==
    (txt.stage = "replied" /\ txt.voice_disable_llm)
    => /\ ~txt.llm_called
       /\ txt.reply.success => txt.reply.text = HardCorrect(txt.final.text)

C25_UndecodableAudioMutatesNothing ==
    connected =>
    \A uw \in {"None", "True", "False"}, usv \in {"None", "True", "False"} :
        LET r == HandleAudioUndecodable(session, uw, usv)
        IN  /\ r.sent = <<"error:AUDIO_DECODE_ERROR">>
            /\ r.s = session

\* C26: an exception raised while an audio chunk is processed is answered,
\* in every mode, with the error PROCESSING_ERROR: in ASR_ACTIVE when
\* process_chunk raises, and in WAITING_FOR_ENROLLMENT when the streaming
\* models cannot be obtained; no failure goes without a reply.
C26_EveryFailureAnswered ==
    connected =>
    /\ session.mode = "ASR_ACTIVE"
         => HandleModelsDown(session, "None", "None").sent
              = <<"error:PROCESSING_ERROR">>
    /\ session.mode = "WAITING_FOR_ENROLLMENT"
         => \A len \in 0..MaxChunkLen, is_speech \in BOOLEAN :
              EnrollmentBranch(session, len, is_speech, TRUE, FALSE).sent
                = <<"error:PROCESSING_ERROR">>

\* C27: while one connection is inside the final recognition (speaker
\* separation, speaker verification, LLM correction), a message that waits
\* for another connection can be taken and processed.
C27_FinalizeBlocksOwnSessionOnly ==
    \A i \in Sessions, j \in Sessions :
        (/\ i # j
         /\ loop.pos[i] \in FinalizeStages
         /\ loop.pos[j] = "receive"
         /\ loop.inbox[j] > 0)
        => CanResume(j)

\* C28: every segment the segmenter returns is at most seg_hard_max
\* characters long, the appended "，" included.
C28_SegmentsWithinHardCap ==
    seg.stage \in {"split", "resplit"} =>
        \A k \in 1..Len(seg.out) : Len(seg.out[k]) <= seg_hard_max

\* C29: a segment the segmenter returned, split again with the same
\* targets, comes back as the one-element list of itself.
C29_SegmenterIdempotent ==
    seg.stage = "resplit" => seg.again = <<seg.out[seg.k]>>

\* C30 as stated: the frame count of the concatenation is the sum of the
\* segments' frame counts plus the pause frames (hard after 。！？； or a
\* newline, soft otherwise) minus the crossfade frames once for every
\* boundary, within one sample.
C30_FramesEveryBoundaryFaded ==
    wav.stage = "done" =>
        LET RECURSIVE Sum(_, _)
            Sum(f, i) == IF i = 0 THEN 0 ELSE f[i] + Sum(f, i - 1)
            n == Len(wav.segs)
            frames == [i \in 1..n |-> wav.segs[i].frames]
            pauses == [i \in 1..(n - 1) |->
                         MsToFrames(sampling_rate, PauseAfter(wav.segs[i].last))]
            expected == Sum(frames, n) + Sum(pauses, n - 1)
                          - (n - 1) * MsToFrames(sampling_rate, crossfade_ms)
            d == NFrames(wav.out, wav.sw) - expected
        IN  d \in {-1, 0, 1}

\* C30 amended: the crossfade frames are taken off only at the boundaries
\* where the crossfade is applied, that is when the samples are 16-bit and
\* the segment after the boundary is at least as long as the crossfade; with
\* that the frame count is exact.
C30_FramesFadedBoundaries ==
    wav.stage = "done" =>
        LET RECURSIVE Sum(_, _)
            Sum(f, i) == IF i = 0 THEN 0 ELSE f[i] + Sum(f, i - 1)
            n == Len(wav.segs)
            fade == MsToFrames(sampling_rate, crossfade_ms)
            frames == [i \in 1..n |-> wav.segs[i].frames]
            pauses == [i \in 1..(n - 1) |->
                         MsToFrames(sampling_rate, PauseAfter(wav.segs[i].last))]
            faded == {i \in 2..n : wav.sw = 2 /\ wav.segs[i].frames >= fade}
        IN  NFrames(wav.out, wav.sw)
              = Sum(frames, n) + Sum(pauses, n - 1) - Cardinality(faded) * fade

\* C30 witness: a concatenated list of 16-bit WAVs with one boundary that is
\* crossfaded and one whose next segment is shorter than the crossfade, after
\* a hard and a soft pause
C30_Witness_FadedAndUnfaded ==
    /\ wav.stage = "done"
    /\ wav.sw = 2
    /\ Len(wav.segs) = 3
    /\ wav.segs[1].last = "U+3002"
    /\ wav.segs[2].last = "a"
    /\ wav.segs[2].frames < MsToFrames(sampling_rate, crossfade_ms)
    /\ wav.segs[3].frames > MsToFrames(sampling_rate, crossfade_ms)
    /\ wav.out > 0


\* C31: in WAITING_FOR_WAKEUP the KWS buffer never holds more than the
\* detection window (1.6 s, 25600 samples), whatever the length of the chunk
\* that is processed, and it is empty after every chunk on which the KWS
\* model ran and answered (a wake or a reject).
C31_KwsBufferWithinWindow ==
    /\ session.kws_audio_buffer <= KwsTargetUnits
    /\ session.mode = "WAITING_FOR_WAKEUP" =>
        \A len \in 1..(2 * KwsTargetUnits), kws \in KwsOutcomes :
            LET r == process_wakeup_chunk(session, len, kws)
            IN  /\ r.s.kws_audio_buffer <= KwsTargetUnits
                /\ (session.kws_audio_buffer + len >= KwsTargetUnits
                      /\ kws \in {"wake", "rejected"})
                    => r.s.kws_audio_buffer = 0

\* C31 witness: a session waiting for the wake word whose buffer is one
\* chunk short of the window, so that the next chunk runs the detection
C31_Witness_WindowAlmostFull ==
    /\ connected
    /\ session.mode = "WAITING_FOR_WAKEUP"
    /\ session.kws_audio_buffer = KwsTargetUnits - 1
    /\ process_wakeup_chunk(session, 1, "wake").ret
    /\ ~process_wakeup_chunk(session, 1, "rejected").ret


\* C32: a worker that comes back from _ensure_pipeline without an exception
\* holds the pipeline instance (not None), also when it performed the load
\* itself, so that no job ends with "TTS pipeline not initialized" after a
\* successful load.
C32_LoaderGetsPipeline ==
    \A j \in JobIds :
        /\ pc[j] = "w524" => pipeInst[j]
        /\ exc[j] # "RuntimeError: TTS pipeline not initialized"


\* C33: a chunk in which the VAD model finds speech counts as speech whatever
\* its energy and peak, in the enrollment branch (the enrollment timers are
\* restarted and the sample has begun) and in process_chunk (the silence
\* timer is reset, has_detected_speech is set and the chunk is appended to
\* audio_buffer).
C33_VadSpeechCountsAsSpeech ==
    connected =>
    \A e \in BOOLEAN, p \in BOOLEAN, save_ok \in BOOLEAN :
        /\ session.mode = "WAITING_FOR_ENROLLMENT" =>
              LET r == EnrollmentBranch(session, 1, EnrollChunkIsSpeech(e, p, TRUE),
                                        save_ok, TRUE)
              IN  \/ r.s.mode # "WAITING_FOR_ENROLLMENT"
                  \/ /\ r.s.enroll_has_detected_speech
                     /\ r.s.enroll_silence_timer = 0
        /\ session.mode = "ASR_ACTIVE" =>
              LET r == process_chunk(session, 1, ChunkIsSpeech(e, p, TRUE), save_ok)
              IN  /\ r.is_speech
                  /\ r.s.has_detected_speech
                  /\ r.s.silence_timer = 0
                  /\ r.s.audio_buffer >= session.audio_buffer + 1


\* C34: the enrollment sample is captured in WAITING_FOR_ENROLLMENT only:
\* every step that lengthens enroll_audio_buffer or sets is_enrolled starts
\* in that mode, and no chunk handled in ASR_ACTIVE does either.
C34_EnrollmentCaptureOnlyInEnrollment ==
    [][(\/ session'.enroll_audio_buffer > session.enroll_audio_buffer
        \/ ~session.is_enrolled /\ session'.is_enrolled)
       => session.mode = "WAITING_FOR_ENROLLMENT"]_vars


C36_MergedFirstSegmentWithinFirstTarget ==
    seg.stage = "split" /\ seg.out # << >> =>
        LET parts == merge_list_items(StrippedParts(
                         SplitAfter(normalize_text(seg.text), StrongBoundary)))
        IN  \A n \in 2..Len(parts) :
                seg.out[1] \in {Concat(SubSeq(parts, 1, n)),
                                Append(Concat(SubSeq(parts, 1, n)), Comma)}
                => Len(Concat(SubSeq(parts, 1, n))) <= seg_first_target


\* C37: a segment whose format differs from the first segment's is appended
\* without crossfade: at its boundary nothing is mixed, so the data put
\* together up to and including that segment is what came before, the pause
\* and the whole segment.
C37_MismatchedSegmentNotCrossfaded ==
    wav.stage = "done" =>
        LET n == Len(wav.segs)
            pcms == [i \in 1..n |-> wav.segs[i].frames * (wav.segs[i].sw * Channels)]
            pauses_ms == [i \in 1..(n - 1) |-> PauseAfter(wav.segs[i].last)]
            upto(i) == concat_wavs_smooth(SubSeq(pcms, 1, i),
                                          SubSeq(pauses_ms, 1, i - 1), wav.sw)
        IN  /\ wav.out = upto(n)
            /\ \A i \in 2..n :
                  wav.segs[i].sw # wav.segs[1].sw
                  => upto(i) = upto(i - 1)
                               + make_silence_frames(sampling_rate, Channels, wav.sw,
                                                     pauses_ms[i - 1])
                               + pcms[i]


\* C38: whatever brings a session into ASR_ACTIVE (start_asr, a message with
\* use_wake=false in WAITING_FOR_WAKEUP, an end_conversation reset with
\* use_wake off) leaves audio_buffer and pre_speech_buffer empty,
\* has_detected_speech false, silence_chunk_count 0 and the silence timer
\* and its reference point at the time of entry.
C38_EntryIntoAsrIsClean ==
    connected /\ session.mode # "ASR_ACTIVE" =>
        \A entered \in {HandleStartAsr(session).s,
                         ApplyFlags(session, "False", "None"),
                         HandleEndConversation(session).s} :
            entered.mode = "ASR_ACTIVE"
            => /\ entered.audio_buffer = 0
               /\ entered.pre_speech_buffer = 0
               /\ ~entered.has_detected_speech
               /\ entered.silence_chunk_count = 0
               /\ entered.silence_timer = 0
               /\ entered.last_voice_time = 0


\* C39: a job record that cleanup has deleted never comes back. A record
\* enters the table only in start_task, under an id that was never used, so
\* no step of a worker that is still running for a deleted job puts the
\* record back or writes a status or a result for it; and every result,
\* cancel or cleanup request for a deleted job is answered not_found.
C39_DeletedJobStaysDeleted ==
    /\ [][\A j \in JobIds :
            (~Present(j) /\ j \in DOMAIN jobs')
            => /\ pc[j] = "idle"
               /\ reply' = [op |-> "start", id |-> j, status |-> "started",
                            body |-> "none"]]_vars
    /\ [][\A j \in JobIds :
            (/\ ~Present(j) /\ pc[j] # "idle"
             /\ reply' # reply
             /\ reply'.id = j
             /\ reply'.op \in {"result", "cancel", "cleanup"})
            => reply'.status = "not_found"]_vars

\* C39 witness: the record of a job was deleted while its worker is still
\* running, and a request for that job has been answered not_found
C39_Witness_DeletedWhileRunning ==
    \E j \in JobIds :
        /\ ~Present(j)
        /\ pc[j] \notin {"idle", "queued", "done"}
        /\ reply.id = j
        /\ reply.op \in {"result", "cancel", "cleanup"}
        /\ reply.status = "not_found"


\* C40: the segmenter loses and duplicates no text. The segments put one
\* after the other, without whitespace and without the "，" that was
\* appended to the end of segments (some of the non-last segments that end
\* in "，"), are the normalized text without whitespace.
C40_SegmentsCoverNormalizedText ==
    seg.stage = "split" =>
        LET NoWs(t) == SelectSeq(t, LAMBDA c : c \notin Whitespace)
            n == Len(seg.out)
            ends == {i \in 1..(n - 1) : seg.out[i][Len(seg.out[i])] = Comma}
            without(S) == [i \in 1..n |->
                             IF i \in S
                             THEN SubSeq(seg.out[i], 1, Len(seg.out[i]) - 1)
                             ELSE seg.out[i]]
        IN  \E S \in SUBSET ends :
                NoWs(Concat(without(S))) = NoWs(normalize_text(seg.text))

\* C40 witness: a text that normalization changed was split into several
\* segments, one of which was hard cut and got a "，" appended
C40_Witness_CutAndAppended ==
    /\ seg.stage = "split"
    /\ Len(seg.out) >= 2
    /\ normalize_text(seg.text) # seg.text
    /\ Len(seg.out[1]) = seg_hard_max + 1
    /\ Len(Concat(seg.out)) > Len(normalize_text(seg.text))

====
